---- MODULE Spec2Model ----
(***************************************************************************)
(* Model of the document acquisition and ingestion pipeline:               *)
(*   - DocumentDatabase      (src/backend/database.py)                     *)
(*   - AdvancedProxyManager  (src/backend/proxy_manager.py)                *)
(* Each component has its own specifications (SpecStore; SpecFetch,        *)
(* SpecAlone, FairSpecAlone) over the shared variable tuple; a component's *)
(* actions leave the other component's variables unchanged.                *)
(***************************************************************************)
EXTENDS Integers, Sequences, FiniteSets, TLC

\* ------------------------------------------------------------------ bounds
\* number of distinct urls / content strings offered to the store
NumUrls == 2
NumContents == 2
\* longest list handed to bulk_insert_documents
MaxBulk == 2

\* resolvers modelled in the iranian_dns pool (the code lists 22)
PoolSize == 2
\* passes over the chain that the fetch_with_rotation calls of one behaviour may ask
\* for in total (the sum of their max_retries)
MaxPasses == 2

\* candidate urls a site can yield, start_scraping invocations
NumCandidates == 3
MaxRuns == 2

\* largest page size asked of search_documents, steps of the clock
MaxLimit == 2
MaxTicks == 1

\* anchors on a page
MaxAnchors == 2

NULL == "NULL"

UrlNames == <<"https://site/law/1", "https://site/law/2", "https://site/law/3", "https://site/law/4">>
ContentNames == <<"text A", "text B", "text C", "text D">>
Urls == {UrlNames[i] : i \in 1..NumUrls}
Contents == {ContentNames[i] : i \in 1..NumContents}
Titles == {"Law 42"}
Sources == {"majlis"}
Categories == {NULL, "constitutional"}
Classifications == {"criminal"}

VARIABLES
  documents,      \* rows of table documents (a set of records)
  last_call,      \* the store call that ran last: arguments, return value, pre-state facts
  proxy_stats,    \* self.proxy_stats: method -> success / failed counters
  failed_proxies, \* self.failed_proxies: the blacklist
  fetch,          \* the fetch_with_rotation coroutines: position, selected endpoint, result
  passes,         \* history: passes asked for by the fetch_with_rotation calls so far
  failed_since_reset, \* history: endpoints that failed since the last reset_failed_proxies
  is_scraping,         \* LegalDocumentScraper.is_scraping
  current_url,         \* .current_url
  documents_processed, \* .documents_processed
  total_documents,     \* .total_documents
  error_count,         \* .error_count
  progress_callback,   \* .progress_callback
  runs,                \* the start_scraping invocations and their scrape_document tasks
  last_step,           \* history: what the last step of the orchestrator did
  search_cache,        \* rows of table search_cache
  clock,               \* the time, in seconds
  last_search,         \* history: the search_documents or clear_cache call that ran last
  discovery,           \* the discover_document_urls coroutine
  documents_fts,       \* rows of the full-text index documents_fts
  raised_events,       \* history: strategy invocations that raised, per method
  pipeline,            \* the scrape_document coroutines of one scrape_site, step by step
  health               \* the health_check coroutine

storeVars == <<documents, last_call, documents_fts>>
fetchVars == <<proxy_stats, failed_proxies, fetch, passes, failed_since_reset,
               raised_events>>
crawlVars == <<is_scraping, current_url, documents_processed, total_documents,
               error_count, progress_callback, runs, last_step>>
searchVars == <<search_cache, clock, last_search>>
discoverVars == <<discovery>>
pipeVars == <<pipeline>>
healthVars == <<health>>
vars == <<documents, last_call, proxy_stats, failed_proxies, fetch, passes,
          failed_since_reset, is_scraping, current_url, documents_processed,
          total_documents, error_count, progress_callback, runs, last_step,
          search_cache, clock, last_search, discovery, documents_fts, raised_events,
          pipeline, health>>

\* ============================================================ Document store

\* a digest that ignores its argument (the empty string is hashed)
generate_content_hash_of_nothing(content) == <<"sha256", "">>

\* hashlib.sha256(content.encode('utf-8')).hexdigest(): a deterministic digest of
\* the content alone; sha-256 is taken to be collision-free on the bounded contents.
generate_content_hash(content) == <<"sha256", content>>

\* json.dumps(v): None -> the string "null", anything else -> its JSON text
json_dumps(v) == IF v = NULL THEN "null" ELSE "{\"category\": \"" \o v \o "\"}"

\* AUTOINCREMENT primary key: one more than the largest id ever stored
NextId(docs) == Cardinality(docs) + 1

\* "SELECT id FROM documents WHERE content_hash = ?"
SelectByHash(docs, h) == {d \in docs : d.content_hash = h}

\* column constraints of CREATE TABLE documents
NotNullViolation(row) == row.url = NULL \/ row.title = NULL \/ row.content = NULL \/ row.source = NULL
UrlNotConstrained(docs, row) == FALSE
UrlUniqueViolation(docs, row) == \E d \in docs : d.url = row.url
HashUniqueViolation(docs, row) == \E d \in docs : d.content_hash = row.content_hash

\* INSERT INTO documents ...: the statement either adds the row or fails with
\* sqlite3.IntegrityError and leaves the table as it was.
SqlInsert(docs, row) ==
  IF NotNullViolation(row) \/ UrlUniqueViolation(docs, row) \/ HashUniqueViolation(docs, row)
  THEN [status |-> "IntegrityError", docs |-> docs]
  ELSE [status |-> "ok", docs |-> docs \cup {[row EXCEPT !.id = NextId(docs)]}]

NewRow(url, title, content, source, category, classification_json) ==
  [id |-> 0, url |-> url, title |-> title, content |-> content, source |-> source,
   category |-> category, content_hash |-> generate_content_hash(content),
   classification_data |-> classification_json, indexed_at |-> NULL,
   scraped_at |-> clock]

\* the row documents_fts holds for a document: its rowid and the four indexed columns
FtsRow(d) == [rowid |-> d.id, title |-> d.title, content |-> d.content,
              category |-> d.category, source |-> d.source]

\* a table without the insert trigger
index_nothing(fts, new) == fts

\* trigger documents_ai: INSERT INTO documents_fts(rowid, title, content, category, source)
documents_ai(fts, new) == fts \cup {FtsRow(new)}

\* trigger documents_ad: the 'delete' command removes the entry of old.id with the old values
documents_ad(fts, old) == fts \ {FtsRow(old)}

\* trigger documents_au: the 'delete' command with the old values, then the insert of the new
documents_au(fts, old, new) == documents_ai(documents_ad(fts, old), new)

RowIds(docs) == {d.id : d \in docs}
RowOf(docs, id) == CHOOSE d \in docs : d.id = id

\* the index after the statements that took the table from before to after, the rows with
\* the ids in touched being those inserted, deleted or matched by the WHERE of an UPDATE:
\* each fires its trigger
RECURSIVE FireTriggers(_, _, _, _)
FireTriggers(fts, before, after, touched) ==
  IF touched = {} THEN fts
  ELSE LET id == CHOOSE i \in touched : TRUE
           fired == IF id \notin RowIds(before) THEN documents_ai(fts, RowOf(after, id))
                    ELSE IF id \notin RowIds(after) THEN documents_ad(fts, RowOf(before, id))
                    ELSE documents_au(fts, RowOf(before, id), RowOf(after, id))
       IN  FireTriggers(fired, before, after, touched \ {id})

\* ids of the rows an INSERT added, a DELETE removed
Inserted(before, after) == RowIds(after) \ RowIds(before)
Deleted(before, after) == RowIds(before) \ RowIds(after)

\* an IntegrityError that escapes insert_document
IntegrityErrorEscapes == "raised"
\* the two except clauses of insert_document: log and return False
OnIntegrityError == "False"

\* insert_document: the value returned and the table afterwards
insert_document_outcome(docs, url, title, content, source, category, classification) ==
  LET content_hash == generate_content_hash(content)
      existing == SelectByHash(docs, content_hash)
      classification_json == IF classification # NULL THEN json_dumps(classification) ELSE NULL
      r == SqlInsert(docs, NewRow(url, title, content, source, category, classification_json))
  IN  IF existing # {} THEN [ret |-> "False", docs |-> docs]
      ELSE IF r.status = "ok" THEN [ret |-> "True", docs |-> r.docs]
      ELSE [ret |-> OnIntegrityError, docs |-> docs]

\* what a call record remembers of the table before the call
CallRecord(op, url, content, ret, count, docs) ==
  [op |-> op, url |-> url, content |-> content, ret |-> ret, count |-> count,
   had_content |-> \E d \in docs : d.content = content,
   had_hash |-> content # NULL /\ \E d \in docs : d.content_hash = generate_content_hash(content),
   had_url |-> \E d \in docs : d.url = url]

NoCall == [op |-> "none", url |-> NULL, content |-> NULL, ret |-> "none", count |-> 0,
           had_content |-> FALSE, had_hash |-> FALSE, had_url |-> FALSE]


insert_document(url, title, content, source, category, classification) ==
  LET o == insert_document_outcome(documents, url, title, content, source, category, classification)
  IN  /\ documents' = o.docs
      /\ documents_fts' = FireTriggers(documents_fts, documents, o.docs,
                                       Inserted(documents, o.docs))
      /\ last_call' = CallRecord("insert_document", url, content, o.ret, 0, documents)
      /\ UNCHANGED <<fetchVars, crawlVars, searchVars, discoverVars, pipeVars, healthVars>>

\* one iteration of the loop of bulk_insert_documents on document doc, from the table
\* and inserted_count in o; a document whose content is missing raises inside the try
\* and is skipped like any failed INSERT
BulkBody(o, doc) ==
  LET r == SqlInsert(o.docs, NewRow(doc.url, doc.title, doc.content, doc.source,
                                    doc.category, json_dumps(doc.classification)))
  IN  IF doc.content = NULL THEN o
      ELSE IF SelectByHash(o.docs, generate_content_hash(doc.content)) # {} THEN o
      ELSE IF r.status = "ok" THEN [docs |-> r.docs, count |-> o.count + 1]
      ELSE o

\* documents a caller may hand to bulk_insert_documents
BulkDocs == [url : Urls \cup {NULL}, title : Titles, content : Contents \cup {NULL},
             source : Sources, category : {NULL}, classification : {NULL}]

\* the table and inserted_count the loop ends with, over every list of at most n documents
RECURSIVE BulkLoop(_, _)
BulkLoop(docs, n) ==
  IF n = 0 THEN {[docs |-> docs, count |-> 0]}
  ELSE LET shorter == BulkLoop(docs, n - 1)
       IN  shorter \cup {BulkBody(o, doc) : o \in shorter, doc \in BulkDocs}

\* bulk_insert_documents(list), for some list of at most n documents
bulk_insert_of(n) ==
  \E o \in BulkLoop(documents, n) :
      /\ documents' = o.docs
      /\ documents_fts' = FireTriggers(documents_fts, documents, o.docs,
                                       Inserted(documents, o.docs))
      /\ last_call' = CallRecord("bulk_insert_documents", NULL, NULL, "none", o.count, documents)
      /\ UNCHANGED <<fetchVars, crawlVars, searchVars, discoverVars, pipeVars, healthVars>>

\* an update that also recomputes the digest, from the classification text
update_with_new_hash(doc_id, classification) ==
  /\ documents' = {IF d.id = doc_id
                     THEN [d EXCEPT !.classification_data = json_dumps(classification),
                                    !.indexed_at = "CURRENT_TIMESTAMP",
                                    !.content_hash = generate_content_hash(classification)]
                     ELSE d : d \in documents}
  /\ documents_fts' = FireTriggers(documents_fts, documents, documents',
                                   {doc_id} \cap RowIds(documents))
  /\ last_call' = CallRecord("update_classification", NULL, NULL, "none", 0, documents)
  /\ UNCHANGED <<fetchVars, crawlVars, searchVars, discoverVars, pipeVars, healthVars>>

\* UPDATE documents SET classification_data = ?, indexed_at = CURRENT_TIMESTAMP WHERE id = ?
update_classification(doc_id, classification) ==
  /\ documents' = {IF d.id = doc_id
                     THEN [d EXCEPT !.classification_data = json_dumps(classification),
                                    !.indexed_at = "CURRENT_TIMESTAMP"]
                     ELSE d : d \in documents}
  /\ documents_fts' = FireTriggers(documents_fts, documents, documents',
                                   {doc_id} \cap RowIds(documents))
  /\ last_call' = CallRecord("update_classification", NULL, NULL, "none", 0, documents)
  /\ UNCHANGED <<fetchVars, crawlVars, searchVars, discoverVars, pipeVars, healthVars>>

bulk_insert_documents == bulk_insert_of(MaxBulk)

StoreInit ==
  /\ documents = {}
  /\ documents_fts = {}
  /\ last_call = NoCall

InsertDocument ==
  \E url \in Urls, title \in Titles, content \in Contents, source \in Sources,
     category \in Categories, classification \in {NULL} :
       insert_document(url, title, content, source, category, classification)
UpdateClassification ==
  \E doc_id \in 1..(NumUrls + 1), classification \in Classifications :
       update_classification(doc_id, classification)

\* ============================================================ Search and cache

\* seconds the clock of the model advances by in one step
SecondsPerTick == 3600

\* expires_at = datetime.now().timestamp() + 3600
CacheTTL == 3600

\* SQLite values with their storage class: datetime.now().timestamp() is bound as a
\* REAL, datetime('now') and CURRENT_TIMESTAMP are TEXT ("YYYY-MM-DD HH:MM:SS", which
\* sorts as the time v does)
SqlReal(v) == [cls |-> "real", v |-> v]
SqlText(v) == [cls |-> "text", v |-> v]

\* a > b in SQLite: values of one storage class compare by value, and a REAL is less
\* than any TEXT (the NUMERIC affinity of expires_at cannot turn a date string into a
\* number, so no conversion takes place)
SqlGreater(a, b) == IF a.cls = b.cls THEN a.v > b.v ELSE a.cls = "text"
SqlLess(a, b) == SqlGreater(b, a)

\* the arguments of search_documents; date_start and date_end are left at None
SearchTitles == <<"Act 7", "Law 42", "law 42">>
Queries == {"", "law"}
SortKeys == {"relevance", "date", "title", "sentiment", "confidence", "newest"}
Limits == 1..MaxLimit
SearchArgs == [query : Queries, source : {NULL} \cup Sources,
               category : Categories, sort_by : SortKeys,
               page : 1..2, limit : 1..(2 * MaxLimit)]

\* str(v) as an f-string formats it: None gives the text 'None', a string itself
str(v) == IF v = NULL THEN "None" ELSE v

\* hashlib.md5(f"{query}_{source}_{category}_{date_start}_{date_end}_{sort_by}_{page}_{limit}"):
\* the digest (taken to be collision-free) of the arguments' texts joined by underscores
query_hash(a) ==
  <<"md5", a.query \o "_" \o str(a.source) \o "_" \o str(a.category) \o "_"
           \o str(NULL) \o "_" \o str(NULL) \o "_" \o a.sort_by \o "_"
           \o ToString(a.page) \o "_" \o ToString(a.limit)>>

\* where_conditions: "if source" and "if category" add an equality, which a NULL column
\* never satisfies; the MATCH condition of a query is the caller's (see search_outcome)
Filtered(a) == a.source # NULL \/ a.category # NULL
\* a statement without the category condition
WhereSourceOnly(docs, a) == {d \in docs : a.source # NULL => d.source = a.source}
Where(docs, a) ==
  {d \in docs : /\ a.source # NULL => d.source = a.source
                /\ a.category # NULL => d.category = a.category}

\* order_clause for a search without query text
order_clause(sort_by) ==
  IF sort_by \in {"relevance", "date"} THEN "d.scraped_at DESC"
  ELSE IF sort_by = "title" THEN "d.title COLLATE NOCASE ASC"
  ELSE IF sort_by = "sentiment" THEN "d.sentiment DESC"
  ELSE IF sort_by = "confidence" THEN "d.confidence DESC"
  ELSE "d.scraped_at DESC"

\* COLLATE NOCASE: the rank of a title among the titles, upper case folded
NoCaseRank(title) ==
  IF title = "Act 7" THEN 1 ELSE IF title \in {"Law 42", "law 42"} THEN 2 ELSE 3

\* the position of a row under an order clause, smaller first; insert_document as the
\* store actions call it leaves sentiment and confidence NULL
SortValue(d, order) ==
  IF order = "d.scraped_at DESC" THEN 0 - d.scraped_at
  ELSE IF order = "d.title COLLATE NOCASE ASC" THEN NoCaseRank(d.title)
  ELSE 0

\* rows that tie on the sort key come out in the order of the scan: by descending rowid
\* when the index on the sort column is walked backwards (no filter), by ascending
\* rowid otherwise
TiesDescending(order, a) == order # "d.title COLLATE NOCASE ASC" /\ ~Filtered(a)
Before(d, e, a) ==
  LET order == order_clause(a.sort_by)
  IN  \/ SortValue(d, order) < SortValue(e, order)
      \/ /\ SortValue(d, order) = SortValue(e, order)
         /\ IF TiesDescending(order, a) THEN d.id > e.id ELSE d.id < e.id

\* ORDER BY: the rows of a set as a sequence
OrderBy(rows, a) ==
  [i \in 1..Cardinality(rows) |->
     CHOOSE d \in rows : Cardinality({e \in rows : Before(e, d, a)}) = i - 1]

\* an offset that skips the first page too
OffsetOfNextPage(page, limit) == page * limit

\* offset = (page - 1) * limit
Offset(page, limit) == (page - 1) * limit

\* LIMIT ? OFFSET ?
LimitOffset(rows, limit, offset) ==
  SubSeq(rows, offset + 1, IF offset + limit < Len(rows) THEN offset + limit ELSE Len(rows))

\* the dict built for a row (contents of the model are shorter than 500 characters)
SearchDoc(d) == [id |-> d.id, url |-> d.url, title |-> d.title, content |-> d.content,
                 source |-> d.source, category |-> d.category,
                 scraped_at |-> d.scraped_at, search_rank |-> 0]

\* the result of a search that runs its query
RunQuery(docs, a) ==
  LET rows == Where(docs, a)
      shown == LimitOffset(OrderBy(rows, a), a.limit, Offset(a.page, a.limit))
  IN  [data |-> [i \in 1..Len(shown) |-> SearchDoc(shown[i])],
       total |-> Cardinality(rows), page |-> a.page, limit |-> a.limit,
       has_more |-> (a.page * a.limit) < Cardinality(rows)]
NoPage == [data |-> <<>>, total |-> 0, page |-> 0, limit |-> 0, has_more |-> FALSE]

\* "SELECT results FROM search_cache WHERE query_hash = ? AND expires_at > datetime('now')"
CacheLookup(cache, a, now) ==
  {e \in cache : e.query_hash = query_hash(a) /\ SqlGreater(e.expires_at, SqlText(now))}

\* INSERT OR REPLACE INTO search_cache: query_hash is the primary key
CacheWrite(cache, a, result, now) ==
  {e \in cache : e.query_hash # query_hash(a)}
  \cup {[query_hash |-> query_hash(a), results |-> result, created_at |-> now,
         expires_at |-> SqlReal(now + CacheTTL)]}

\* search_documents: what it returns and the cache afterwards. A live cache entry is
\* returned as stored (json.loads of json.dumps gives the dict back). With query text the
\* select list names "rank", a column of documents_fts that "documents d" does not have:
\* the statement raises sqlite3.OperationalError, which nothing catches
search_outcome(docs, cache, now, a) ==
  LET hit == CacheLookup(cache, a, now)
      result == RunQuery(docs, a)
  IN  IF hit # {}
      THEN [status |-> "hit", ret |-> (CHOOSE e \in hit : TRUE).results, cache |-> cache]
      ELSE IF a.query # ""
      THEN [status |-> "raised", ret |-> NoPage, cache |-> cache]
      ELSE [status |-> "miss", ret |-> result, cache |-> CacheWrite(cache, a, result, now)]

NoArgs == [query |-> "", source |-> NULL, category |-> NULL, sort_by |-> "", page |-> 0,
           limit |-> 0]
NoSearch == [op |-> "none", args |-> NoArgs, status |-> "none", ret |-> NoPage]

search_documents(a) ==
  LET o == search_outcome(documents, search_cache, clock, a)
  IN  /\ search_cache' = o.cache
      /\ last_search' = [op |-> "search_documents", args |-> a, status |-> o.status,
                         ret |-> o.ret]
      /\ UNCHANGED <<clock, storeVars, fetchVars, crawlVars, discoverVars, pipeVars, healthVars>>

\* a clean-up that empties table documents as well
clear_cache_and_documents ==
  /\ search_cache' = {e \in search_cache : ~SqlLess(e.expires_at, SqlText(clock))}
  /\ last_search' = [NoSearch EXCEPT !.op = "clear_cache"]
  /\ documents' = {}
  /\ documents_fts' = FireTriggers(documents_fts, documents, {}, Deleted(documents, {}))
  /\ UNCHANGED <<last_call, clock, fetchVars, crawlVars, discoverVars, pipeVars, healthVars>>

\* "DELETE FROM search_cache WHERE expires_at < datetime('now')"
clear_cache ==
  /\ search_cache' = {e \in search_cache : ~SqlLess(e.expires_at, SqlText(clock))}
  /\ last_search' = [NoSearch EXCEPT !.op = "clear_cache"]
  /\ UNCHANGED <<clock, storeVars, fetchVars, crawlVars, discoverVars, pipeVars, healthVars>>

\* get_document(doc_id): None (found FALSE) or dict(row), where the key
\* classification_data is deleted and, when the column held text, the key classification
\* carries json.loads of it ("absent" stands for a missing key; json.loads gives back
\* what json_dumps was given, which the JSON text stands for here)
NoRow == [found |-> FALSE, id |-> 0, url |-> NULL, title |-> NULL, content |-> NULL,
          source |-> NULL, category |-> NULL, scraped_at |-> 0, content_hash |-> NULL,
          indexed_at |-> NULL, classification |-> "absent"]
get_document(docs, doc_id) ==
  IF \E d \in docs : d.id = doc_id
  THEN LET d == CHOOSE d \in docs : d.id = doc_id
       IN  [found |-> TRUE, id |-> d.id, url |-> d.url, title |-> d.title,
            content |-> d.content, source |-> d.source, category |-> d.category,
            scraped_at |-> d.scraped_at, content_hash |-> d.content_hash,
            indexed_at |-> d.indexed_at,
            classification |-> IF d.classification_data # NULL
                               THEN d.classification_data ELSE "absent"]
  ELSE NoRow

\* get_database_stats()["total_documents"]: SELECT COUNT(*) FROM documents
total_documents_stat(docs) == Cardinality(docs)

\* time passes
Tick ==
  /\ clock < MaxTicks * SecondsPerTick
  /\ clock' = clock + SecondsPerTick
  /\ last_search' = NoSearch
  /\ UNCHANGED <<search_cache, storeVars, fetchVars, crawlVars, discoverVars, pipeVars, healthVars>>

SearchInit ==
  /\ search_cache = {}
  /\ clock = 0
  /\ last_search = NoSearch

\* ======================================================= Fetch strategy chain

\* a chain that tries the archive before the relay
MethodsArchiveBeforeRelay == <<"direct", "iranian_dns", "archive", "cors_proxy">>

\* the methods list of fetch_with_rotation, in the order tried
Methods == <<"direct", "iranian_dns", "cors_proxy", "archive">>
MethodNames == {Methods[i] : i \in 1..Len(Methods)}

\* the pools of __init__; PoolSize resolvers are modelled, and one relay and one mirror
DnsNames == <<"178.22.122.100", "185.51.200.2", "10.202.10.202", "178.22.122.101">>
CorsNames == <<"https://cors-anywhere.herokuapp.com/">>
ArchiveNames == <<"https://web.archive.org/web/">>
iranian_dns == {DnsNames[i] : i \in 1..PoolSize}
cors_proxies == {CorsNames[i] : i \in 1..Len(CorsNames)}
archive_proxies == {ArchiveNames[i] : i \in 1..Len(ArchiveNames)}

\* the pool a strategy selects from; _fetch_direct uses none
Pool(m) == CASE m = "iranian_dns" -> iranian_dns
             [] m = "cors_proxy" -> cors_proxies
             [] m = "archive" -> archive_proxies
             [] OTHER -> {}

\* len(result.get("content", "")) > 100
MinContentLength == 100

\* a threshold that lets a body of exactly the minimum length through
AcceptedAtThreshold(content_length) == content_length >= MinContentLength

Accepted(content_length) == content_length > MinContentLength

\* a handler that catches network errors only
except_ClientError(exc) == exc = "ClientError"

\* "except Exception" of fetch_with_rotation: the exceptions a strategy invocation can
\* raise (aiohttp.ClientError and asyncio.TimeoutError from the request, IndexError from
\* random.choice([]), TypeError from len(None)) are all subclasses of Exception
ExceptionClasses == {"ClientError", "IndexError", "TypeError"}
except_Exception(exc) == exc \in ExceptionClasses

\* the coroutines that may run fetch_with_rotation at the same time
Fetchers == {"f1", "f2"}

NoResult == [success |-> "none", method |-> NULL, content_length |-> 0]
NoResponse == [outcome |-> "none", content_length |-> 0]
\* a coroutine: its position in fetch_with_rotation (pc, attempt, mi), the endpoint its
\* suspended strategy selected, the value it returned; and the history of its current
\* pass: the strategies called, whether every one that finished raised, the response
\* handled last, the failed counters when the pass began (snap) and whether only this
\* coroutine moved the counters since
IdleTask == [pc |-> "idle", max_retries |-> 0, attempt |-> 0, mi |-> 1, endpoint |-> NULL,
             result |-> NoResult, called |-> {}, all_raised |-> TRUE, last |-> NoResponse,
             clean |-> FALSE, snap |-> [m \in MethodNames |-> 0]]

\* an increment that writes back a count read before other failures were counted: the
\* counter never gets past 1
IncFailedStale(stats, m) == [stats EXCEPT ![m].failed = 1]

\* _update_proxy_stats(method, success)
IncSuccess(stats, m) == [stats EXCEPT ![m].success = @ + 1]
IncFailed(stats, m) == [stats EXCEPT ![m].failed = @ + 1]
_update_proxy_stats(stats, m, success) ==
  IF success THEN IncSuccess(stats, m) ELSE IncFailed(stats, m)

\* a selection that ignores the blacklist
AnyOfPool(m, failed) == Pool(m)

\* [x for x in pool if x not in self.failed_proxies], the list random.choice draws from
Candidates(m, failed) == Pool(m) \ failed

\* self.failed_proxies.add(endpoint) in a strategy's except clause; _fetch_direct has none
Blacklist(failed, endpoint) == IF endpoint = NULL THEN failed ELSE failed \cup {endpoint}

\* a strategy that forgives its pool when it finds every endpoint of it blacklisted
ResetOnExhaustion(failed, m) == failed \ Pool(m)

\* the blacklist after a strategy found no candidate: random.choice([]) raises before
\* any statement touches self.failed_proxies
OnExhausted(failed, m) == failed

\* a clear() that drops one entry only
discard_one(failed) == IF failed = {} THEN {} ELSE failed \ {CHOOSE e \in failed : TRUE}

\* self.failed_proxies.clear()
set_clear(failed) == {}

\* what the network hands back to a suspended strategy: an exception, a body of some
\* length, or (relay only) a JSON envelope whose "contents" is null
ContentLengths == {MinContentLength, MinContentLength + 1}
Responses(m) ==
  {[outcome |-> "raise", content_length |-> 0]}
  \cup {[outcome |-> "content", content_length |-> n] : n \in ContentLengths}
  \cup (IF m = "cors_proxy" THEN {[outcome |-> "no_content", content_length |-> 0]} ELSE {})

\* len("test content"), the body the mocked _fetch_direct of the test returns
TestBodyLength == 12
MockedResponses(m) ==
  IF m = "direct" THEN {[outcome |-> "content", content_length |-> TestBodyLength]} ELSE {}

\* the top of "for method_name, method_func in methods" at the start of a pass
BeginPass(t, stats) ==
  [t EXCEPT !.mi = 1, !.endpoint = NULL, !.called = {}, !.all_raised = TRUE,
            !.last = NoResponse, !.clean = TRUE,
            !.snap = [m \in MethodNames |-> stats[m].failed]]

\* return {"success": False, "error": "All proxy methods failed"}
ReturnFailure(t) ==
  [t EXCEPT !.pc = "returned", !.endpoint = NULL, !.mi = 1, !.last = NoResponse,
            !.clean = FALSE, !.snap = [m \in MethodNames |-> 0],
            !.result = [success |-> "False", method |-> NULL, content_length |-> 0]]

\* return {"success": True, "content": ..., "method": method_name, ...}
ReturnSuccess(t, m, content_length) ==
  [t EXCEPT !.pc = "returned", !.endpoint = NULL, !.mi = 1,
            !.clean = FALSE, !.snap = [k \in MethodNames |-> 0],
            !.result = [success |-> "True", method |-> m, content_length |-> content_length]]

\* an exception that no except clause of fetch_with_rotation catches reaches the caller
Propagate(t) ==
  [t EXCEPT !.pc = "returned", !.endpoint = NULL, !.mi = 1,
            !.clean = FALSE, !.snap = [k \in MethodNames |-> 0],
            !.result = [success |-> "raised", method |-> NULL, content_length |-> 0]]

\* fetch_with_rotation from the top of the inner loop at method t.mi up to its next
\* suspension point: a strategy whose pool is all blacklisted raises at random.choice([])
\* before it suspends (IndexError, caught by the chain: failed += 1, continue); any other
\* strategy selects an endpoint and suspends in session.get; after the last method the
\* coroutine suspends in asyncio.sleep.
RECURSIVE Run(_, _, _)
Run(stats, failed, t) ==
  IF t.mi > Len(Methods)
  THEN {[stats |-> stats, failed |-> failed, t |-> [t EXCEPT !.pc = "sleep", !.endpoint = NULL]]}
  ELSE LET m == Methods[t.mi]
           tc == [t EXCEPT !.called = @ \cup {m}]
       IN  IF m = "direct"
           THEN {[stats |-> stats, failed |-> failed,
                  t |-> [tc EXCEPT !.pc = "await", !.endpoint = NULL]]}
           ELSE IF Candidates(m, failed) = {}
           THEN IF except_Exception("IndexError")
                THEN Run(_update_proxy_stats(stats, m, FALSE), OnExhausted(failed, m),
                         [tc EXCEPT !.mi = @ + 1])
                ELSE {[stats |-> stats, failed |-> failed, t |-> Propagate(tc)]}
           ELSE {[stats |-> stats, failed |-> failed,
                  t |-> [tc EXCEPT !.pc = "await", !.endpoint = e]] :
                   e \in Candidates(m, failed)}

\* the exception exc of strategy m reaches the try of fetch_with_rotation
Raised(stats, failed, t, m, exc) ==
  IF except_Exception(exc)
  THEN Run(_update_proxy_stats(stats, m, FALSE), failed,
           [t EXCEPT !.mi = @ + 1, !.endpoint = NULL])
  ELSE {[stats |-> stats, failed |-> failed, t |-> Propagate(t)]}

\* a pass of another coroutine is no longer undisturbed once the counters move under it
Disturb(t) == [t EXCEPT !.clean = FALSE, !.snap = [m \in MethodNames |-> 0]]

\* the history of its current pass (called, all_raised, last, snap, clean) is kept for
\* the observed coroutine only; the other one is there to interleave with it
Observed == "f1"
Forget(t) == [t EXCEPT !.called = {}, !.all_raised = TRUE, !.last = NoResponse,
                       !.clean = FALSE, !.snap = [m \in MethodNames |-> 0]]

\* the coroutine f moves to o.t; the shared counters and blacklist move to o.stats, o.failed
Commit(f, o) ==
  /\ proxy_stats' = o.stats
  /\ failed_proxies' = o.failed
  /\ fetch' = [h \in Fetchers |->
                 IF h = f THEN (IF f = Observed THEN o.t ELSE Forget(o.t))
                 ELSE IF o.stats # proxy_stats THEN Disturb(fetch[h]) ELSE fetch[h]]

\* the strategies a step went past without suspending, after position from: each found
\* its pool blacklisted and raised at random.choice([])
Skipped(from, t) ==
  IF t.pc = "await" THEN {k \in 1..Len(Methods) : from < k /\ k < t.mi}
  ELSE IF t.pc = "sleep" THEN {k \in 1..Len(Methods) : from < k}
  ELSE {}

\* the invocations that have raised, after a step in which the strategy own raised on
\* its response (NULL: none did) and the coroutine ran on from position from to t
Tally(events, own, from, t) ==
  LET skipped == Skipped(from, t)
  IN  IF own = NULL /\ skipped = {} THEN events
      ELSE [m \in MethodNames |->
              events[m] + (IF m = own THEN 1 ELSE 0)
                        + (IF \E k \in skipped : Methods[k] = m THEN 1 ELSE 0)]

\* for attempt in range(max_retries): another pass after attempt passes are done
MoreAttempts(t) == t.attempt < t.max_retries

\* a caller awaits fetch_with_rotation(url, max_retries)
Start(f, max_retries) ==
  /\ fetch[f].pc \in {"idle", "returned"}
  /\ passes + max_retries <= MaxPasses
  /\ passes' = passes + max_retries
  /\ LET t == BeginPass([IdleTask EXCEPT !.max_retries = max_retries], proxy_stats)
     IN  \E o \in (IF MoreAttempts(t)
                    THEN Run(proxy_stats, failed_proxies, t)
                    ELSE {[stats |-> proxy_stats, failed |-> failed_proxies,
                           t |-> ReturnFailure(t)]}) :
            Commit(f, o) /\ raised_events' = Tally(raised_events, NULL, 0, o.t)
  /\ UNCHANGED failed_since_reset
  /\ UNCHANGED <<storeVars, crawlVars, searchVars, discoverVars, pipeVars, healthVars>>

\* the suspended strategy of f resumes with response r; the chain handles it and runs on
\* to its next suspension point or return
Respond(f, r) ==
  LET t == [fetch[f] EXCEPT !.last = r]
      m == Methods[t.mi]
  IN  /\ t.pc = "await"
      /\ r \in Responses(m) \cup MockedResponses(m)
      /\ CASE r.outcome = "raise" ->
                 \* the strategy's except clause blacklists its endpoint and re-raises
                 /\ failed_since_reset' = failed_since_reset \cup
                                             (IF t.endpoint = NULL THEN {} ELSE {t.endpoint})
                 /\ \E o \in Raised(proxy_stats, Blacklist(failed_proxies, t.endpoint),
                                     t, m, "ClientError") :
                        Commit(f, o) /\ raised_events' = Tally(raised_events, m, t.mi, o.t)
           [] r.outcome = "no_content" ->
                 \* len(None) raises TypeError inside the chain's try
                 /\ UNCHANGED failed_since_reset
                 /\ \E o \in Raised(proxy_stats, failed_proxies, t, m, "TypeError") :
                        Commit(f, o) /\ raised_events' = Tally(raised_events, m, t.mi, o.t)
           [] r.outcome = "content" /\ Accepted(r.content_length) ->
                 /\ UNCHANGED <<failed_since_reset, raised_events>>
                 /\ Commit(f, [stats |-> _update_proxy_stats(proxy_stats, m, TRUE),
                               failed |-> failed_proxies,
                               t |-> ReturnSuccess(t, m, r.content_length)])
           [] OTHER ->
                 \* a body at or below the threshold: no counter moves, next method
                 /\ UNCHANGED failed_since_reset
                 /\ \E o \in Run(proxy_stats, failed_proxies,
                                  [t EXCEPT !.mi = @ + 1, !.endpoint = NULL,
                                            !.all_raised = FALSE]) :
                        Commit(f, o) /\ raised_events' = Tally(raised_events, NULL, t.mi, o.t)
      /\ UNCHANGED passes
      /\ UNCHANGED <<storeVars, crawlVars, searchVars, discoverVars, pipeVars, healthVars>>

\* await asyncio.sleep(random.uniform(2, 5)) returns: next attempt, or the final return
AfterSleep(f) ==
  LET t == [fetch[f] EXCEPT !.attempt = @ + 1]
  IN  /\ fetch[f].pc = "sleep"
      /\ \E o \in (IF MoreAttempts(t)
                    THEN Run(proxy_stats, failed_proxies, BeginPass(t, proxy_stats))
                    ELSE {[stats |-> proxy_stats, failed |-> failed_proxies,
                           t |-> ReturnFailure(t)]}) :
            Commit(f, o) /\ raised_events' = Tally(raised_events, NULL, 0, o.t)
      /\ UNCHANGED <<failed_since_reset, passes>>
      /\ UNCHANGED <<storeVars, crawlVars, searchVars, discoverVars, pipeVars, healthVars>>

\* reset_failed_proxies(): self.failed_proxies.clear()
reset_failed_proxies ==
  /\ failed_proxies' = set_clear(failed_proxies)
  /\ failed_since_reset' = {}
  /\ UNCHANGED <<proxy_stats, fetch, passes, raised_events>>
  /\ UNCHANGED <<storeVars, crawlVars, searchVars, discoverVars, pipeVars, healthVars>>

\* one caller, which awaits each call before it makes the next
StartAlone == \E max_retries \in 0..MaxPasses : Start(Observed, max_retries)
\* a second caller, which makes one single-pass call while the first is at work
StartOther == \E f \in Fetchers \ {Observed} : fetch[f].pc = "idle" /\ Start(f, 1)
StartFetch == StartAlone \/ StartOther
StrategyResponds ==
  \E f \in {h \in Fetchers : fetch[h].pc = "await"} :
     \E r \in Responses(Methods[fetch[f].mi]) : Respond(f, r)
SleepEnds == \E f \in Fetchers : AfterSleep(f)

FetchInit ==
  /\ proxy_stats = [m \in MethodNames |-> [success |-> 0, failed |-> 0]]
  /\ failed_proxies = {}
  /\ fetch = [f \in Fetchers |-> IdleTask]
  /\ passes = 0
  /\ failed_since_reset = {}
  /\ raised_events = [m \in MethodNames |-> 0]

\* ============================================================ Crawl orchestrator

\* LEGAL_SITES, in the order the dict is iterated
LegalSites == <<"rc.majlis.ir", "divan-edalat.ir", "ijudiciary.ir">>
LegalSiteNames == {LegalSites[i] : i \in 1..Len(LegalSites)}

\* urls a caller may put in target_urls, and urlparse(url).netloc of each
TargetUrls == {"https://rc.majlis.ir/law/", "https://test.com/law/"}
netloc(url) == IF url = "https://rc.majlis.ir/law/" THEN "rc.majlis.ir" ELSE "test.com"
TargetLists == {<<>>} \cup {<<url>> : url \in TargetUrls}

\* the sites start_scraping calls scrape_site on: the known domains of target_urls in
\* order, or every configured site when target_urls is None or empty
IsLegalSite(domain) == domain \in LegalSiteNames
SitesToScrape(target_urls) ==
  IF Len(target_urls) = 0
  THEN LegalSites
  ELSE SelectSeq([i \in 1..Len(target_urls) |-> netloc(target_urls[i])], IsLegalSite)

\* the candidate urls discover_document_urls can return, in the order of the list
CandidateIds == 1..NumCandidates
CandidateUrl(i) == UrlNames[i]

\* a semaphore with room for every task
SemaphoreUnbounded == NumCandidates + 1

\* asyncio.Semaphore(2)
SemaphoreSize == 2

\* the callback main.py registers (a broadcast to the websocket clients) or none
Callbacks == {NULL, "broadcast"}

\* LegalDocumentScraper(database, ai_classifier) as main.py constructs it
ai_classifier == "bert"

\* what fetch_with_rotation hands to fetch_with_retry
FetchResults ==
  {[success |-> "False", method |-> NULL, content_length |-> 0],
   [success |-> "True", method |-> "direct", content_length |-> MinContentLength + 1]}

\* what the selectors find in a fetched page: a title (empty when the element holds no
\* text) and the joined content parts
ShortText == "text below the minimum"
DocumentTexts == {ContentNames[1], ContentNames[2]}
\* the pages fetched: documents, and a page for each way the validation fails
Pages ==
  [title : Titles, content : DocumentTexts]
  \cup {[title |-> "", content |-> ContentNames[1]],
        [title |-> "Law 42", content |-> ""],
        [title |-> "Law 42", content |-> ShortText]}

\* len(content) < 100
MinDocumentLength == 100

\* a validation that lets content one character short of the minimum through
TooShortBelowMinimum(n) == n < MinDocumentLength - 1

TooShort(n) == n < MinDocumentLength

\* len(content): documents of the model are exactly MinDocumentLength long
TextLength(content) ==
  IF content = "" THEN 0
  ELSE IF content = ShortText THEN MinDocumentLength - 1
  ELSE MinDocumentLength

\* extract_document_data: None (valid FALSE) or the document dict
NoDocument == [valid |-> FALSE, title |-> "", content |-> "", category |-> NULL,
               source |-> "", url |-> ""]
extract_document_data(page, url, site) ==
  IF page.title = "" \/ page.content = "" \/ TooShort(TextLength(page.content))
  THEN NoDocument
  ELSE [valid |-> TRUE, title |-> page.title, content |-> page.content, category |-> NULL,
        source |-> site, url |-> url]

\* ai_classifier.classify_document: it raises, or returns the classification dict
ClassifierOutcomes == {"raise", "ok"}
NoClassification == [classification |-> NULL, entities |-> "[]", sentiment |-> NULL,
                     confidence |-> NULL]
Classified == [classification |-> "criminal", entities |-> "[entities]",
               sentiment |-> "positive - negative", confidence |-> "confidence"]

\* a handler that counts a classifier failure as a failure of the document
ClassifierFailureFatal(outcome) == outcome = "ok"

\* the inner try of scrape_document: an exception of the classifier is logged and the
\* document goes on unclassified
ClassifierFailureCaught(outcome) == TRUE

\* lines 207-225 of scrape_document: the four values handed to insert_document
Classify(outcome) ==
  IF ai_classifier # NULL /\ outcome = "ok" THEN Classified ELSE NoClassification

\* progress events: the dict handed to the callback (title, processed and total are
\* keys of the 'completed' event of a document only)
Event(status, url) == [status |-> status, url |-> url, title |-> NULL, processed |-> 0,
                       total |-> 0]

\* a notice built from the count as it was before the increment
CompletedBeforeIncrement(url, title, processed, total) ==
  [status |-> "completed", url |-> url, title |-> title, processed |-> processed - 1,
   total |-> total]

\* {"status": "completed", "url": url, "title": doc_data['title'],
\*  "processed": self.documents_processed, "total": self.total_documents}
Completed(url, title, processed, total) ==
  [status |-> "completed", url |-> url, title |-> title, processed |-> processed,
   total |-> total]

\* a failure counted by fetch_with_retry and once more by its caller
CountedTwice(result) == IF result.success = "True" THEN 0 ELSE 2

\* fetch_with_retry: self.error_count += 1 when the chain reports failure
FetchErrors(result) == IF result.success = "True" THEN 0 ELSE 1

\* what one step of the orchestrator did (history): the operation, the url, the fetch
\* result, the title and the length of the content found in the page, whether a document
\* was extracted, the classifier's outcome, the arguments of
\* the insert_document call made (called FALSE when none), the value returned, the
\* events handed to the progress callback, the API's message and the number scrape_site
\* returned (count)
NoStep == [op |-> "none", url |-> NULL, fetched |-> "none", title |-> "", length |-> 0,
           count |-> 0,
           valid |-> FALSE,
           classifier |-> "none", called |-> FALSE, args |-> NoClassification,
           ret |-> "none", events |-> {}, message |-> ""]

\* a scrape_document that counts every document it handed to the store
ProcessedAlways(ret) == 1

\* if success: self.documents_processed += 1
Processed(ret) == IF ret = "True" THEN 1 ELSE 0

\* scrape_document from the return of fetch_with_retry to its own return or to the sleep
\* before it: the fetch result, the page the selectors see, the classifier's outcome.
\* The awaits of classify_document and insert_document touch no state of the orchestrator
\* and are taken in the same step. processed and total are self.documents_processed and
\* self.total_documents as the step finds them.
scrape_document(docs, callback, url, site, result, page, outcome, processed, total) ==
  LET doc == extract_document_data(page, url, site)
      c == Classify(outcome)
      o == insert_document_outcome(docs, doc.url, doc.title, doc.content, doc.source,
                                   doc.category, c.classification)
      nothing == [ret |-> "False", docs |-> docs, called |-> FALSE, valid |-> FALSE,
                  args |-> NoClassification, classifier |-> "none",
                  errors |-> FetchErrors(result), processed |-> 0, events |-> {},
                  pc |-> "done"]
  IN  IF result.success # "True" THEN nothing
      ELSE IF ~doc.valid THEN nothing
      ELSE IF ai_classifier # NULL /\ outcome = "raise" /\ ~ClassifierFailureCaught(outcome)
      THEN \* the outer except of scrape_document
           [nothing EXCEPT !.valid = TRUE, !.classifier = outcome, !.errors = @ + 1,
                           !.events = IF callback # NULL THEN {Event("error", url)} ELSE {}]
      ELSE [ret |-> o.ret, docs |-> o.docs, called |-> TRUE, valid |-> TRUE, args |-> c,
            classifier |-> IF ai_classifier # NULL THEN outcome ELSE "none",
            errors |-> FetchErrors(result),
            processed |-> Processed(o.ret),
            events |-> IF o.ret = "True" /\ callback # NULL
                       THEN {Completed(url, doc.title, processed + Processed(o.ret), total)}
                       ELSE {},
            pc |-> "delay"]

\* a start_scraping invocation: where it is (pc), the arguments the API scheduled it
\* with, the sites still to scrape (the first is the one being scraped) and the
\* scrape_with_semaphore tasks of the current scrape_site
NoTasks == [i \in CandidateIds |-> "none"]
IdleRun == [pc |-> "idle", target_urls |-> <<>>, callback |-> NULL, sites |-> <<>>,
            tasks |-> NoTasks, results |-> NoTasks]

\* a sum that counts every result of the gather
CountEveryResult(results) == Cardinality({i \in CandidateIds : results[i] # "none"})

\* successful_scrapes = sum(1 for result in results if result is True)
successful_scrapes(results) == Cardinality({i \in CandidateIds : results[i] = "True"})
Runs == 1..MaxRuns

\* scrape_document pipelines of run r that hold the semaphore
InFlight(run) == {i \in CandidateIds : run.tasks[i] \in {"fetch", "delay"}}
Waiting(run) == {i \in CandidateIds : run.tasks[i] = "waiting"}
\* runs that are between their start and their return
Executing == {r \in Runs : runs[r].pc \in {"notify_start", "discover", "gather", "notify_done",
                                          "notify_error"}}

\* start_scraping from the end of one site to its next await: the next scrape_site
\* (suspended in discover_document_urls), the completion notice, or the return through
\* "finally: self.is_scraping = False"
Proceed(run, flag, callback) ==
  IF run.sites # <<>>
  THEN [run |-> [run EXCEPT !.pc = "discover", !.tasks = NoTasks,
                           !.results = NoTasks], flag |-> flag,
        events |-> {}]
  ELSE IF callback # NULL
  THEN [run |-> [run EXCEPT !.pc = "notify_done", !.tasks = NoTasks,
                           !.results = NoTasks], flag |-> flag,
        events |-> {Event("completed", NULL)}]
  ELSE [run |-> [run EXCEPT !.pc = "done", !.tasks = NoTasks,
                           !.results = NoTasks], flag |-> FALSE,
        events |-> {}]

\* the rest of a step of run r that runs on in start_scraping
Continue(r, run, callback, step) ==
  LET p == Proceed(run, is_scraping, callback)
  IN  /\ runs' = [runs EXCEPT ![r] = p.run]
      /\ is_scraping' = p.flag
      /\ last_step' = [step EXCEPT !.events = @ \cup p.events]

\* POST /api/scraping/start
api_start_scraping(r, urls) ==
  /\ runs[r].pc = "idle"
  /\ IF is_scraping
     THEN /\ last_step' = [NoStep EXCEPT !.op = "api_start",
                                         !.message = "Scraping already in progress"]
          /\ UNCHANGED runs
     ELSE /\ last_step' = [NoStep EXCEPT !.op = "api_start",
                                         !.message = "Scraping started successfully"]
          /\ runs' = [runs EXCEPT ![r] = [@ EXCEPT !.pc = "scheduled", !.target_urls = urls,
                                                   !.callback = "broadcast"]]
  /\ UNCHANGED <<is_scraping, current_url, documents_processed, total_documents,
                 error_count, progress_callback>>
  /\ UNCHANGED <<storeVars, fetchVars, searchVars, discoverVars, pipeVars, healthVars>>

\* a start that keeps the counters the previous run left
CountersKept(processed, total, errors) ==
  [documents_processed |-> processed, total_documents |-> total, error_count |-> errors]

\* self.documents_processed = 0; self.total_documents = 0; self.error_count = 0
CountersReset(processed, total, errors) ==
  [documents_processed |-> 0, total_documents |-> 0, error_count |-> 0]

\* a start_scraping without the guard
GuardMissing(flag) == FALSE

\* if self.is_scraping: return
AlreadyScraping(flag) == flag

\* start_scraping(target_urls, progress_callback) up to its first await
start_scraping(r, target_urls, callback) ==
  IF AlreadyScraping(is_scraping)
  THEN /\ runs' = [runs EXCEPT ![r] = [IdleRun EXCEPT !.pc = "done"]]
       /\ last_step' = [NoStep EXCEPT !.op = "start_scraping", !.ret = "returned"]
       /\ UNCHANGED <<is_scraping, current_url, documents_processed, total_documents,
                      error_count, progress_callback>>
       /\ UNCHANGED <<storeVars, fetchVars, searchVars, discoverVars, pipeVars, healthVars>>
  ELSE /\ LET c == CountersReset(documents_processed, total_documents, error_count)
          IN  /\ documents_processed' = c.documents_processed
              /\ total_documents' = c.total_documents
              /\ error_count' = c.error_count
       /\ progress_callback' = callback
       /\ IF callback # NULL
          THEN /\ is_scraping' = TRUE
               /\ runs' = [runs EXCEPT ![r] = [IdleRun EXCEPT
                                                 !.pc = "notify_start",
                                                 !.sites = SitesToScrape(target_urls)]]
               /\ last_step' = [NoStep EXCEPT !.op = "start_scraping", !.ret = "started",
                                              !.events = {Event("started", NULL)}]
          ELSE LET p == Proceed([IdleRun EXCEPT !.sites = SitesToScrape(target_urls)],
                                TRUE, callback)
               IN  /\ is_scraping' = p.flag
                   /\ runs' = [runs EXCEPT ![r] = p.run]
                   /\ last_step' = [NoStep EXCEPT !.op = "start_scraping",
                                                  !.ret = "started", !.events = p.events]
       /\ UNCHANGED current_url
       /\ UNCHANGED <<storeVars, fetchVars, searchVars, discoverVars, pipeVars, healthVars>>

\* the background task the API scheduled begins to run
ScheduledStart(r) ==
  /\ runs[r].pc = "scheduled"
  /\ start_scraping(r, runs[r].target_urls, runs[r].callback)

\* a caller awaits start_scraping directly
DirectStart(r, target_urls, callback) ==
  /\ runs[r].pc = "idle"
  /\ start_scraping(r, target_urls, callback)

\* the "started" notice has been sent
StartNotified(r) ==
  /\ runs[r].pc = "notify_start"
  /\ Continue(r, runs[r], progress_callback, NoStep)
  /\ UNCHANGED <<current_url, documents_processed, total_documents, error_count,
                 progress_callback>>
  /\ UNCHANGED <<storeVars, fetchVars, searchVars, discoverVars, pipeVars, healthVars>>

\* discover_document_urls returns to scrape_site: the base page could not be fetched
\* (no urls), or it gave the candidates found, failed_pages of its pagination pages
\* having failed; every failed fetch is counted by fetch_with_retry
Discovered(r, base, failed_pages, found) ==
  LET run == runs[r]
      urls == IF base.success = "True" THEN found ELSE {}
      errors == IF base.success = "True" THEN failed_pages ELSE FetchErrors(base)
  IN  /\ run.pc = "discover"
      /\ error_count' = error_count + errors
      /\ total_documents' = Cardinality(urls)
      /\ IF urls = {}
         THEN Continue(r, [run EXCEPT !.sites = Tail(@)], progress_callback,
                       [NoStep EXCEPT !.op = "scrape_site"])
         ELSE /\ runs' = [runs EXCEPT ![r] = [run EXCEPT
                            !.pc = "gather",
                            !.tasks = [i \in CandidateIds |->
                                         IF i \in urls THEN "waiting" ELSE "none"]]]
              /\ last_step' = NoStep
              /\ UNCHANGED is_scraping
      /\ UNCHANGED <<current_url, documents_processed, progress_callback>>
      /\ UNCHANGED <<storeVars, fetchVars, searchVars, discoverVars, pipeVars, healthVars>>

\* "async with semaphore": the task that has waited longest enters scrape_document,
\* which sets current_url and suspends in fetch_with_retry
Acquire(r, i) ==
  LET run == runs[r]
  IN  /\ run.pc = "gather"
      /\ i \in Waiting(run)
      /\ \A j \in Waiting(run) : i <= j
      /\ Cardinality(InFlight(run)) < SemaphoreSize
      /\ runs' = [runs EXCEPT ![r].tasks[i] = "fetch"]
      /\ current_url' = CandidateUrl(i)
      /\ last_step' = NoStep
      /\ UNCHANGED <<is_scraping, documents_processed, total_documents, error_count,
                     progress_callback>>
      /\ UNCHANGED <<storeVars, fetchVars, searchVars, discoverVars, pipeVars, healthVars>>

\* fetch_with_retry returns to scrape_document
DocumentFetched(r, i, result, page, outcome) ==
  LET run == runs[r]
      url == CandidateUrl(i)
      o == scrape_document(documents, progress_callback, url, Head(run.sites), result,
                           page, outcome, documents_processed, total_documents)
  IN  /\ run.pc = "gather"
      /\ run.tasks[i] = "fetch"
      /\ documents' = o.docs
      /\ documents_fts' = FireTriggers(documents_fts, documents, o.docs,
                                       Inserted(documents, o.docs))
      /\ last_call' = IF o.called
                      THEN CallRecord("insert_document", url, page.content, o.ret, 0, documents)
                      ELSE last_call
      /\ error_count' = error_count + o.errors
      /\ documents_processed' = documents_processed + o.processed
      /\ runs' = [runs EXCEPT ![r].tasks[i] = o.pc, ![r].results[i] = o.ret]
      /\ last_step' = [op |-> "scrape_document", url |-> url, fetched |-> result.success,
                       title |-> IF result.success = "True" THEN page.title ELSE "",
                       count |-> 0,
                       length |-> IF result.success = "True"
                                  THEN TextLength(page.content) ELSE 0,
                       valid |-> o.valid, classifier |-> o.classifier, called |-> o.called,
                       args |-> o.args, ret |-> o.ret, events |-> o.events, message |-> ""]
      /\ UNCHANGED <<is_scraping, current_url, total_documents, progress_callback>>
      /\ UNCHANGED <<fetchVars, searchVars, discoverVars, pipeVars, healthVars>>

\* the progress notice and asyncio.sleep(delay) of scrape_document are over: it returns
\* and the semaphore is released
Delayed(r, i) ==
  /\ runs[r].pc = "gather"
  /\ runs[r].tasks[i] = "delay"
  /\ runs' = [runs EXCEPT ![r].tasks[i] = "done"]
  /\ last_step' = NoStep
  /\ UNCHANGED <<is_scraping, current_url, documents_processed, total_documents,
                 error_count, progress_callback>>
  /\ UNCHANGED <<storeVars, fetchVars, searchVars, discoverVars, pipeVars, healthVars>>

\* asyncio.gather returns: scrape_site is over and start_scraping goes on
SiteDone(r) ==
  LET run == runs[r]
  IN  /\ run.pc = "gather"
      /\ \A i \in CandidateIds : run.tasks[i] \in {"none", "done"}
      /\ Continue(r, [run EXCEPT !.sites = Tail(@)], progress_callback,
                  [NoStep EXCEPT !.op = "scrape_site",
                                 !.count = successful_scrapes(run.results)])
      /\ UNCHANGED <<current_url, documents_processed, total_documents, error_count,
                     progress_callback>>
      /\ UNCHANGED <<storeVars, fetchVars, searchVars, discoverVars, pipeVars, healthVars>>

\* the completion notice has been sent: finally: self.is_scraping = False
Finished(r) ==
  /\ runs[r].pc = "notify_done"
  /\ runs' = [runs EXCEPT ![r].pc = "done"]
  /\ is_scraping' = FALSE
  /\ last_step' = NoStep
  /\ UNCHANGED <<current_url, documents_processed, total_documents, error_count,
                 progress_callback>>
  /\ UNCHANGED <<storeVars, fetchVars, searchVars, discoverVars, pipeVars, healthVars>>

\* the progress callback awaited by start_scraping raises instead of returning: the
\* except clause counts an error and sends the "error" notice when a callback is set,
\* else control reaches "finally: self.is_scraping = False"
CallbackRaised(r) ==
  /\ runs[r].pc \in {"notify_start", "notify_done"}
  /\ error_count' = error_count + 1
  /\ IF progress_callback # NULL
     THEN /\ runs' = [runs EXCEPT ![r].pc = "notify_error"]
          /\ last_step' = [NoStep EXCEPT !.op = "start_scraping", !.ret = "raised",
                                         !.events = {Event("error", NULL)}]
          /\ UNCHANGED is_scraping
     ELSE /\ runs' = [runs EXCEPT ![r].pc = "done"]
          /\ last_step' = [NoStep EXCEPT !.op = "start_scraping", !.ret = "raised"]
          /\ is_scraping' = FALSE
  /\ UNCHANGED <<current_url, documents_processed, total_documents, progress_callback>>
  /\ UNCHANGED <<storeVars, fetchVars, searchVars, discoverVars, pipeVars, healthVars>>

\* a start_scraping that returns after an exception without its finally clause
ErrorNotifiedFlagKept(r) ==
  /\ runs[r].pc = "notify_error"
  /\ runs' = [runs EXCEPT ![r].pc = "done"]
  /\ last_step' = [NoStep EXCEPT !.op = "start_scraping", !.ret = "failed"]
  /\ UNCHANGED <<is_scraping, current_url, documents_processed, total_documents,
                 error_count, progress_callback>>
  /\ UNCHANGED <<storeVars, fetchVars, searchVars, discoverVars, pipeVars, healthVars>>

\* the "error" notice has been sent, or has raised in its turn: finally
ErrorNotified(r) ==
  /\ runs[r].pc = "notify_error"
  /\ runs' = [runs EXCEPT ![r].pc = "done"]
  /\ is_scraping' = FALSE
  /\ last_step' = [NoStep EXCEPT !.op = "start_scraping", !.ret = "failed"]
  /\ UNCHANGED <<current_url, documents_processed, total_documents, error_count,
                 progress_callback>>
  /\ UNCHANGED <<storeVars, fetchVars, searchVars, discoverVars, pipeVars, healthVars>>

\* stop_scraping()
stop_scraping ==
  /\ is_scraping' = FALSE
  /\ current_url' = ""
  /\ last_step' = [NoStep EXCEPT !.op = "stop_scraping"]
  /\ UNCHANGED <<documents_processed, total_documents, error_count, progress_callback,
                 runs>>
  /\ UNCHANGED <<storeVars, fetchVars, searchVars, discoverVars, pipeVars, healthVars>>

CrawlInit ==
  /\ is_scraping = FALSE
  /\ current_url = ""
  /\ documents_processed = 0
  /\ total_documents = 0
  /\ error_count = 0
  /\ progress_callback = NULL
  /\ runs = [r \in Runs |-> IdleRun]
  /\ last_step = NoStep

\* ============================================================ URL discovery

\* a url or href is the sequence of the pieces its text is made of, cut so that a
\* document indicator can only occur as a whole piece
Hrefs == {<<"/", "law", "/42">>, <<"/", "about">>, <<"/", "LAW", "/43">>,
          <<"https://other/", "verdict", "/7">>}
PageHref == <<"/", "page", "/2">>
\* an anchor without href attribute
NoHref == <<>>
BaseUrls == {<<"https://site">>, <<"https://", "law", "site">>}

\* document_indicators of is_document_url (the Persian words are left out: no url of
\* the model contains one)
document_indicators == {"law", "rule", "regulation", "verdict", "decision"}

\* str.lower() on the pieces of the model
lower(piece) == IF piece \in {"LAW", "Law"} THEN "law" ELSE piece

\* a filter that lets every url through
is_any_url(url) == TRUE

\* is_document_url: any(indicator in url.lower() for indicator in document_indicators)
is_document_url(url) == \E i \in 1..Len(url) : lower(url[i]) \in document_indicators

\* urljoin(base_url, href) for a base without path: an absolute href as it is, a
\* root-relative one behind the origin
urljoin(base, href) == IF href[1] = "/" THEN base \o href ELSE href

\* the pages the fetches of a discovery can return: the hrefs of the anchors in document
\* order, and the elements the pagination selector matches (anchors too, some without
\* href)
AnchorLists == UNION {[1..n -> Hrefs] : n \in 0..MaxAnchors}
PaginationLists == {<<>>, <<PageHref>>, <<NoHref, PageHref>>}
HtmlPages == [anchors : AnchorLists, pagination : PaginationLists]

\* what the await of fetch_with_retry gives: the html of a page, None, or an exception
NoHtml == [anchors |-> <<>>, pagination |-> <<>>]
Html(page) == [status |-> "html", page |-> page]
ReturnsNone == [status |-> "None", page |-> NoHtml]
Raises == [status |-> "raised", page |-> NoHtml]

\* soup.find_all('a', href=True): every anchor that has an href, pagination included
find_all_a(page) == page.anchors \o SelectSeq(page.pagination, LAMBDA href : href # NoHref)

\* full_url of every link of a page, in document order
FullUrls(base, page) == [i \in 1..Len(find_all_a(page)) |-> urljoin(base, find_all_a(page)[i])]

\* the urls of a page that the loop adds to the set
DocumentUrls(base, page) ==
  {FullUrls(base, page)[i] : i \in {j \in 1..Len(FullUrls(base, page)) :
                                       is_document_url(FullUrls(base, page)[j])}}

\* soup.select(site_config.get('pagination', '')): the matched elements; a configuration
\* without the key gives the selector '', which matches nothing or raises into the
\* except clause, and either way no page url is visited
PaginationSelectors == {".pagination a", ""}
PageUrls(base, page, selector) ==
  IF selector = "" THEN <<>>
  ELSE LET links == SelectSeq(page.pagination, LAMBDA href : href # NoHref)
       IN  [i \in 1..Len(links) |-> urljoin(base, links[i])]

\* list(urls): the elements of the set, each once, in an order the caller cannot rely on
Listings(urls) ==
  {s \in [1..Cardinality(urls) -> urls] : \A i, j \in 1..Cardinality(urls) : s[i] = s[j] => i = j}

\* the discover_document_urls coroutine: its position, arguments, the set urls, the page
\* urls still to visit, the value returned, and history (whether the base page was
\* fetched, the full_urls the loops saw and how many links that were, pages visited)
IdleDiscovery == [pc |-> "idle", base_url |-> <<>>, selector |-> "", urls |-> {},
                  pending |-> <<>>, ret |-> <<>>, base_fetched |-> "none",
                  seen |-> {}, links |-> 0, pages |-> 0]
LinkSet(base, page) == {FullUrls(base, page)[i] : i \in 1..Len(FullUrls(base, page))}

\* return list(urls)
Return(d, urls) ==
  \E listing \in Listings(urls) :
     discovery' = [d EXCEPT !.pc = "done", !.urls = urls, !.pending = <<>>, !.ret = listing]

\* discover_document_urls(base_url, site_config) up to its first await
DiscoverCall(base_url, selector) ==
  /\ discovery.pc = "idle"
  /\ discovery' = [discovery EXCEPT !.pc = "base", !.base_url = base_url,
                                    !.selector = selector]
  /\ UNCHANGED <<storeVars, fetchVars, crawlVars, searchVars, pipeVars, healthVars>>

\* fetch_with_retry(base_url) returns: None (counted as an error, "return []") or the
\* page, whose links are filtered and whose pagination links are collected
BaseFetched(fetched) ==
  LET d == discovery
      html == fetched.page
  IN  /\ d.pc = "base"
      /\ IF fetched.status = "None"
         THEN /\ error_count' = error_count + 1
              /\ discovery' = [d EXCEPT !.pc = "done", !.ret = <<>>, !.base_fetched = "False"]
         ELSE LET urls == DocumentUrls(d.base_url, html)
                  pending == PageUrls(d.base_url, html, d.selector)
                  e == [d EXCEPT !.base_fetched = "True", !.seen = LinkSet(d.base_url, html),
                                 !.links = Len(FullUrls(d.base_url, html))]
              IN  /\ UNCHANGED error_count
                  /\ IF pending = <<>>
                     THEN Return(e, urls)
                     ELSE discovery' = [e EXCEPT !.pc = "page", !.urls = urls,
                                                 !.pending = pending]
      /\ UNCHANGED <<is_scraping, current_url, documents_processed, total_documents,
                     progress_callback, runs, last_step>>
      /\ UNCHANGED <<storeVars, fetchVars, searchVars, pipeVars, healthVars>>

\* fetch_with_retry(page_url) returns: None (counted, the page is skipped), a page whose
\* links are filtered, or an exception reaches the except clause and the urls found so
\* far are returned
PageFetched(fetched) ==
  LET d == discovery
      html == fetched.page
      urls == IF fetched.status = "html" THEN d.urls \cup DocumentUrls(d.base_url, html)
              ELSE d.urls
      e == IF fetched.status = "html"
           THEN [d EXCEPT !.seen = @ \cup LinkSet(d.base_url, html),
                          !.links = @ + Len(FullUrls(d.base_url, html)), !.pages = @ + 1]
           ELSE d
  IN  /\ d.pc = "page"
      /\ error_count' = error_count + (IF fetched.status = "None" THEN 1 ELSE 0)
      /\ IF fetched.status = "raised" \/ Len(d.pending) = 1
         THEN Return(e, urls)
         ELSE discovery' = [e EXCEPT !.urls = urls, !.pending = Tail(@)]
      /\ UNCHANGED <<is_scraping, current_url, documents_processed, total_documents,
                     progress_callback, runs, last_step>>
      /\ UNCHANGED <<storeVars, fetchVars, searchVars, pipeVars, healthVars>>

DiscoverInit == discovery = IdleDiscovery

\* ============================================================ Document pipeline

\* the steps of scrape_document, in the order of its statements
Steps == <<"fetch", "extract", "classify", "insert", "event", "delay">>
Begin(step) == <<step, "begin">>
End(step) == <<step, "end">>

\* the pages a fetch of the pipeline returns: a document, and a page without one
PipelinePages == {[title |-> "Law 42", content |-> ContentNames[1]],
                  [title |-> "Law 42", content |-> ShortText]}

\* a scrape_document coroutine: the statement it is suspended in (pc), the document
\* extracted, the classification it will hand to the store, the value it returned, and
\* the history of the steps it began and ended
IdlePipeline == [pc |-> "none", doc |-> NoDocument, c |-> NoClassification, ret |-> "none",
                 trace |-> <<>>]
\* pipelines between "async with semaphore" and their return
Holding == {i \in CandidateIds : pipeline[i].pc \in {"fetch", "classify", "insert", "event",
                                                      "error_event", "delay"}}

\* return from scrape_document: the semaphore is released, the task has its result
Returned(p, ret) == [p EXCEPT !.pc = "done", !.ret = ret, !.doc = NoDocument,
                              !.c = NoClassification]

\* a pipeline that hands the document to the store while the classifier is still at work
StoreAtOnce == "insert"

\* "if self.ai_classifier:" the statement that follows the extraction of a document
AfterExtract == IF ai_classifier # NULL THEN "classify" ELSE "insert"

\* set_progress_callback(callback), before the scrape_site call
set_progress_callback(callback) ==
  /\ \A i \in CandidateIds : pipeline[i].pc = "none"
  /\ progress_callback' = callback
  /\ UNCHANGED <<is_scraping, current_url, documents_processed, total_documents,
                 error_count, runs, last_step, pipeline>>
  /\ UNCHANGED <<storeVars, fetchVars, searchVars, discoverVars, healthVars>>

\* scrape_site from the return of discover_document_urls (the candidates found) to the
\* gather of its scrape_with_semaphore tasks
Gather(found) ==
  /\ \A i \in CandidateIds : pipeline[i].pc = "none"
  /\ found # {}
  /\ total_documents' = Cardinality(found)
  /\ pipeline' = [i \in CandidateIds |->
                    IF i \in found THEN [IdlePipeline EXCEPT !.pc = "waiting"]
                    ELSE IdlePipeline]
  /\ UNCHANGED <<is_scraping, current_url, documents_processed, error_count,
                 progress_callback, runs, last_step>>
  /\ UNCHANGED <<storeVars, fetchVars, searchVars, discoverVars, healthVars>>

\* "async with semaphore": scrape_document(url) sets current_url and awaits the fetch
Enter(i) ==
  /\ pipeline[i].pc = "waiting"
  /\ \A j \in CandidateIds : pipeline[j].pc = "waiting" => i <= j
  /\ Cardinality(Holding) < SemaphoreSize
  /\ pipeline' = [pipeline EXCEPT ![i].pc = "fetch", ![i].trace = <<Begin("fetch")>>]
  /\ current_url' = CandidateUrl(i)
  /\ UNCHANGED <<is_scraping, documents_processed, total_documents, error_count,
                 progress_callback, runs, last_step>>
  /\ UNCHANGED <<storeVars, fetchVars, searchVars, discoverVars, healthVars>>

\* fetch_with_retry returns: None ends the pipeline with False; else the document is
\* extracted, which ends the pipeline with False when there is none, and the classifier
\* (or, without one, the store) is awaited
FetchReturns(i, result, page) ==
  LET p == pipeline[i]
      doc == extract_document_data(page, CandidateUrl(i), LegalSites[1])
      fetched == [p EXCEPT !.trace = @ \o <<End("fetch")>>]
      extracted == [fetched EXCEPT !.trace = @ \o <<Begin("extract"), End("extract")>>]
  IN  /\ p.pc = "fetch"
      /\ error_count' = error_count + FetchErrors(result)
      /\ pipeline' = [pipeline EXCEPT ![i] =
            IF result.success # "True" THEN Returned(fetched, "False")
            ELSE IF ~doc.valid THEN Returned(extracted, "False")
            ELSE [extracted EXCEPT !.pc = AfterExtract, !.doc = doc,
                                   !.trace = @ \o <<Begin(AfterExtract)>>]]
      /\ UNCHANGED <<is_scraping, current_url, documents_processed, total_documents,
                     progress_callback, runs, last_step>>
      /\ UNCHANGED <<storeVars, fetchVars, searchVars, discoverVars, healthVars>>

\* classify_document returns or raises (the inner except logs): insert_document is awaited
ClassifierReturns(i, outcome) ==
  LET p == pipeline[i]
  IN  /\ p.pc = "classify"
      /\ pipeline' = [pipeline EXCEPT ![i] =
            [p EXCEPT !.pc = "insert", !.c = Classify(outcome),
                      !.trace = @ \o <<End("classify"), Begin("insert")>>]]
      /\ UNCHANGED crawlVars
      /\ UNCHANGED <<storeVars, fetchVars, searchVars, discoverVars, healthVars>>

\* insert_document returns: on True the document is counted and, with a callback, the
\* 'completed' event is awaited; else the sleep is
InsertReturns(i) ==
  LET p == pipeline[i]
      o == insert_document_outcome(documents, p.doc.url, p.doc.title, p.doc.content,
                                   p.doc.source, p.doc.category, p.c.classification)
      stored == [p EXCEPT !.ret = o.ret, !.c = NoClassification,
                          !.trace = @ \o <<End("insert")>>]
      next == IF o.ret = "True" /\ progress_callback # NULL THEN "event" ELSE "delay"
  IN  /\ p.pc = "insert"
      /\ documents' = o.docs
      /\ documents_fts' = FireTriggers(documents_fts, documents, o.docs,
                                       Inserted(documents, o.docs))
      /\ last_call' = CallRecord("insert_document", p.doc.url, p.doc.content, o.ret, 0,
                                 documents)
      /\ documents_processed' = documents_processed + Processed(o.ret)
      /\ pipeline' = [pipeline EXCEPT ![i] =
            [stored EXCEPT !.pc = next, !.trace = @ \o <<Begin(next)>>]]
      /\ UNCHANGED <<is_scraping, current_url, total_documents, error_count,
                     progress_callback, runs, last_step>>
      /\ UNCHANGED <<fetchVars, searchVars, discoverVars, healthVars>>

\* the callback returns from the 'completed' event: the sleep is awaited
CallbackReturns(i) ==
  LET p == pipeline[i]
  IN  /\ p.pc = "event"
      /\ pipeline' = [pipeline EXCEPT ![i] =
            [p EXCEPT !.pc = "delay", !.trace = @ \o <<End("event"), Begin("delay")>>]]
      /\ UNCHANGED crawlVars
      /\ UNCHANGED <<storeVars, fetchVars, searchVars, discoverVars, healthVars>>

\* the callback raises on the 'completed' event: the outer except counts an error and
\* awaits the callback with the 'error' event
CallbackFails(i) ==
  LET p == pipeline[i]
  IN  /\ p.pc = "event"
      /\ error_count' = error_count + 1
      /\ pipeline' = [pipeline EXCEPT ![i] =
            [p EXCEPT !.pc = "error_event", !.trace = @ \o <<End("event")>>]]
      /\ UNCHANGED <<is_scraping, current_url, documents_processed, total_documents,
                     progress_callback, runs, last_step>>
      /\ UNCHANGED <<storeVars, fetchVars, searchVars, discoverVars, healthVars>>

\* the callback is back from the 'error' event (returned, or raised into the gather):
\* the pipeline is over without the value True
ErrorCallbackReturns(i) ==
  /\ pipeline[i].pc = "error_event"
  /\ pipeline' = [pipeline EXCEPT ![i] = Returned(pipeline[i], "False")]
  /\ UNCHANGED crawlVars
  /\ UNCHANGED <<storeVars, fetchVars, searchVars, discoverVars, healthVars>>

\* asyncio.sleep(delay) returns: return success
SleepReturns(i) ==
  LET p == pipeline[i]
  IN  /\ p.pc = "delay"
      /\ pipeline' = [pipeline EXCEPT ![i] =
            Returned([p EXCEPT !.trace = @ \o <<End("delay")>>], p.ret)]
      /\ UNCHANGED crawlVars
      /\ UNCHANGED <<storeVars, fetchVars, searchVars, discoverVars, healthVars>>

PipelineInit == pipeline = [i \in CandidateIds |-> IdlePipeline]

\* ============================================================ Health check

\* the methods list of health_check, in the order probed
HealthMethods == <<"direct", "iranian_dns", "cors_proxy">>

\* the health_check coroutine: its position (pc, mi), the endpoint its suspended strategy
\* selected, health_status, and the history of the strategies it called
NoStatus == [m \in {HealthMethods[k] : k \in 1..Len(HealthMethods)} |-> "none"]
IdleHealth == [pc |-> "idle", mi |-> 1, endpoint |-> NULL, status |-> NoStatus,
               probed |-> <<>>]

\* what a probe comes back with: the strategy raises, or returns its dict (whatever the
\* length of the content, which health_check does not look at)
HealthResponses == {"raise", "return"}

\* health_check from the top of its loop at method h.mi to its next suspension point or
\* to "return health_status": a strategy whose pool is all blacklisted raises at
\* random.choice([]) and is reported unhealthy at once
RECURSIVE HealthRun(_, _)
HealthRun(failed, h) ==
  IF h.mi > Len(HealthMethods)
  THEN {[h EXCEPT !.pc = "done", !.endpoint = NULL]}
  ELSE LET m == HealthMethods[h.mi]
           hc == [h EXCEPT !.probed = Append(@, m)]
       IN  IF m = "direct" THEN {[hc EXCEPT !.pc = "await", !.endpoint = NULL]}
           ELSE IF Candidates(m, failed) = {}
           THEN HealthRun(failed, [hc EXCEPT !.status[m] = "unhealthy", !.mi = @ + 1])
           ELSE {[hc EXCEPT !.pc = "await", !.endpoint = e] : e \in Candidates(m, failed)}

\* health_check() up to its first await
health_check ==
  /\ health.pc \in {"idle", "done"}
  /\ \E h \in HealthRun(failed_proxies, IdleHealth) : health' = h
  /\ UNCHANGED <<storeVars, fetchVars, crawlVars, searchVars, discoverVars, pipeVars>>

\* the suspended strategy of health_check resumes: when it raises, its except clause has
\* blacklisted the endpoint it selected before health_check's own except reports
\* 'unhealthy'; when it returns, the method is reported 'healthy'
HealthResponds(r) ==
  LET m == HealthMethods[health.mi]
      failed == IF r = "raise" THEN Blacklist(failed_proxies, health.endpoint)
                ELSE failed_proxies
      h == [health EXCEPT !.status[m] = IF r = "raise" THEN "unhealthy" ELSE "healthy",
                          !.mi = @ + 1, !.endpoint = NULL]
  IN  /\ health.pc = "await"
      /\ failed_proxies' = failed
      /\ failed_since_reset' = IF r = "raise" /\ health.endpoint # NULL
                               THEN failed_since_reset \cup {health.endpoint}
                               ELSE failed_since_reset
      /\ \E g \in HealthRun(failed, h) : health' = g
      /\ UNCHANGED <<proxy_stats, fetch, passes, raised_events>>
      /\ UNCHANGED <<storeVars, crawlVars, searchVars, discoverVars, pipeVars>>

HealthInit == health = IdleHealth

Init ==
  /\ StoreInit /\ FetchInit /\ CrawlInit /\ SearchInit /\ DiscoverInit
  /\ PipelineInit /\ HealthInit

NextStore ==
  \/ InsertDocument
  \/ bulk_insert_documents
  \/ UpdateClassification

SpecStore == Init /\ [][NextStore]_vars

\* concurrent callers
NextFetch ==
  \/ StartFetch
  \/ StrategyResponds
  \/ SleepEnds
  \/ reset_failed_proxies

SpecFetch == Init /\ [][NextFetch]_vars

\* a single caller
NextAlone ==
  \/ StartAlone
  \/ StrategyResponds
  \/ SleepEnds
  \/ reset_failed_proxies

SpecAlone == Init /\ [][NextAlone]_vars

\* every request ends (aiohttp.ClientTimeout(total=30)) and every sleep ends (at most
\* 5 s), so a suspended coroutine is always resumed
FairSpecAlone ==
  Init /\ [][NextAlone]_vars /\ WF_vars(StrategyResponds) /\ WF_vars(SleepEnds)

\* ---- the workers of a crawl, each with a call of one pass at a time
StartWorker == \E f \in Fetchers : Start(f, 1)
NextWorkers ==
  \/ StartWorker
  \/ StrategyResponds
  \/ SleepEnds
SpecWorkers == Init /\ [][NextWorkers]_vars

\* ---- a single caller whose _fetch_direct may be the mock of the test
MockedDirectResponds ==
  /\ fetch[Observed].pc = "await"
  /\ \E r \in MockedResponses(Methods[fetch[Observed].mi]) : Respond(Observed, r)
NextMocked ==
  \/ StartAlone
  \/ MockedDirectResponds
  \/ StrategyResponds
  \/ SleepEnds
SpecMocked == Init /\ [][NextMocked]_vars

\* ---- one caller: the pipelines of a run, with every page and outcome
FirstRun == 1
StartCrawl ==
  \E url \in TargetUrls, callback \in Callbacks :
     DirectStart(FirstRun, <<url>>, callback)
Discovery ==
  \E r \in Runs, base \in FetchResults, failed_pages \in 0..1, found \in SUBSET CandidateIds :
     Discovered(r, base, failed_pages, found)
Acquires == \E r \in Runs, i \in CandidateIds : Acquire(r, i)
Fetched ==
  \E r \in Runs, i \in CandidateIds, result \in FetchResults, page \in Pages,
     outcome \in ClassifierOutcomes : DocumentFetched(r, i, result, page, outcome)
Delays == \E r \in Runs, i \in CandidateIds : Delayed(r, i)
SitesDone == \E r \in Runs : SiteDone(r)
StartsNotified == \E r \in Runs : StartNotified(r)
Finishes == \E r \in Runs : Finished(r)

NextCrawl ==
  \/ StartCrawl
  \/ StartsNotified
  \/ Discovery
  \/ Acquires
  \/ Fetched
  \/ Delays
  \/ SitesDone
  \/ Finishes

SpecCrawl == Init /\ [][NextCrawl]_vars

\* the same, where a task that can take the semaphore takes it, a fetch in flight returns
\* (the requests carry a timeout) and the sleep after a document ends
FairSpecCrawl ==
  /\ SpecCrawl
  /\ WF_vars(Acquires)
  /\ WF_vars(Fetched)
  /\ WF_vars(Delays)

\* ---- start and stop requests in any order, on runs that find at most one candidate
\* per site, a document each time it can be fetched
RequestsOf(r) == IF r = FirstRun THEN TargetLists ELSE TargetLists \ {<<>>}
ApiStart == \E r \in Runs : \E urls \in RequestsOf(r) : api_start_scraping(r, urls)
ScheduledStarts == \E r \in Runs : ScheduledStart(r)
DiscoveryOfOne ==
  \E r \in Runs, base \in {b \in FetchResults : b.success = "True"}, found \in SUBSET {1} :
     Discovered(r, base, 0, found)
FetchedDocument ==
  \E r \in Runs, i \in CandidateIds, result \in FetchResults :
     DocumentFetched(r, i, result, [title |-> "Law 42", content |-> ContentNames[1]], "ok")

NextControl ==
  \/ ApiStart
  \/ ScheduledStarts
  \/ stop_scraping
  \/ StartsNotified
  \/ DiscoveryOfOne
  \/ Acquires
  \/ FetchedDocument
  \/ Delays
  \/ SitesDone
  \/ Finishes

SpecControl == Init /\ [][NextControl]_vars

\* ---- the life of the runs: starts, stops, callbacks that raise; every fetch, sleep and
\* callback ends and a scheduled task gets to run
\* the runs the API schedules here: a first one and a later one
LifecycleRuns == {FirstRun, FirstRun + 1}
ApiStartOfTwo ==
  \E r \in LifecycleRuns : \E urls \in RequestsOf(r) : api_start_scraping(r, urls)
CallbackRaises == \E r \in Runs : CallbackRaised(r)
ErrorsNotified == \E r \in Runs : ErrorNotified(r)
NextLifecycle ==
  \/ ApiStartOfTwo
  \/ ScheduledStarts
  \/ stop_scraping
  \/ StartsNotified
  \/ CallbackRaises
  \/ ErrorsNotified
  \/ DiscoveryOfOne
  \/ Acquires
  \/ FetchedDocument
  \/ Delays
  \/ SitesDone
  \/ Finishes
FairSpecLifecycle ==
  /\ Init /\ [][NextLifecycle]_vars
  /\ WF_vars(ScheduledStarts) /\ WF_vars(StartsNotified) /\ WF_vars(ErrorsNotified)
  /\ WF_vars(DiscoveryOfOne) /\ WF_vars(Acquires) /\ WF_vars(FetchedDocument)
  /\ WF_vars(Delays) /\ WF_vars(SitesDone) /\ WF_vars(Finishes)

\* ---- the store with its search cache, as time passes
SearchRequests ==
  {[query |-> "", source |-> NULL, category |-> NULL, sort_by |-> "relevance",
    page |-> 1, limit |-> 2],
   [query |-> "law", source |-> NULL, category |-> NULL, sort_by |-> "relevance",
    page |-> 1, limit |-> 1]}
\* the documents offered to the store: A, B with the content of A under another url,
\* C and D with contents of their own in category "constitutional"
Corpus ==
  {[url |-> UrlNames[1], title |-> "Law 42", content |-> ContentNames[1], category |-> NULL],
   [url |-> UrlNames[2], title |-> "Law 42", content |-> ContentNames[1], category |-> NULL],
   [url |-> UrlNames[3], title |-> "Act 7", content |-> ContentNames[2],
    category |-> "constitutional"],
   [url |-> UrlNames[4], title |-> "law 42", content |-> ContentNames[3],
    category |-> "constitutional"]}
InsertForSearch ==
  \E doc \in Corpus :
       insert_document(doc.url, doc.title, doc.content, "majlis", doc.category, NULL)
SearchDocuments == \E a \in SearchRequests : search_documents(a)

NextSearch ==
  \/ InsertForSearch
  \/ SearchDocuments
  \/ clear_cache
  \/ Tick

SpecSearch == Init /\ [][NextSearch]_vars

\* ---- health checks and the one single-pass fetch that follows the first of them to
\* report, which is over before the next health check begins
HealthResumes == \E r \in HealthResponses : HealthResponds(r)
HealthCheckBegins == fetch[Observed].pc \in {"idle", "returned"} /\ health_check
StartAfterHealth == health.pc = "done" /\ passes = 0 /\ Start(Observed, 1)
NextHealth ==
  \/ HealthCheckBegins
  \/ HealthResumes
  \/ reset_failed_proxies
  \/ StartAfterHealth
  \/ StrategyResponds
  \/ SleepEnds
SpecHealth == Init /\ [][NextHealth]_vars

\* ---- searches whose arguments differ in where an underscore falls, or in None and 'None'
KeyRequests ==
  {[query |-> q.query, source |-> q.source, category |-> q.category,
    sort_by |-> "relevance", page |-> 1, limit |-> 1] :
     q \in {[query |-> "", source |-> NULL, category |-> NULL],
             [query |-> "", source |-> NULL, category |-> "None"],
             [query |-> "civil_code", source |-> "majlis", category |-> NULL],
             [query |-> "civil", source |-> "code_majlis", category |-> NULL]}}
KeySearches == \E a \in KeyRequests : search_documents(a)
NextKeys ==
  \/ InsertForSearch
  \/ KeySearches
  \/ Tick
SpecKeys == Init /\ [][NextKeys]_vars

\* ---- every operation of the store on one clock value
InsertOne ==
  \E url \in Urls, content \in Contents :
       insert_document(url, "Law 42", content, "majlis", NULL, NULL)
BulkOfOne == bulk_insert_of(1)
\* the search of every document, first page
SearchAll ==
  search_documents([query |-> "", source |-> NULL, category |-> NULL,
                    sort_by |-> "relevance", page |-> 1, limit |-> 1])

NextArchive ==
  \/ InsertOne
  \/ BulkOfOne
  \/ UpdateClassification
  \/ SearchAll
  \/ clear_cache

SpecArchive == Init /\ [][NextArchive]_vars

\* ---- one discovery, over every page its fetches can return
DiscoverCalls == \E base_url \in BaseUrls, selector \in PaginationSelectors :
                    DiscoverCall(base_url, selector)
BaseFetches == \E page \in HtmlPages : BaseFetched(Html(page)) \/ BaseFetched(ReturnsNone)
PageFetches ==
  \E page \in HtmlPages : PageFetched(Html(page)) \/ PageFetched(ReturnsNone) \/ PageFetched(Raises)
NextDiscover == DiscoverCalls \/ BaseFetches \/ PageFetches
SpecDiscover == Init /\ [][NextDiscover]_vars

\* ---- one scrape_site, its pipelines step by step, with or without a callback
SetsCallback == \E callback \in Callbacks : set_progress_callback(callback)
Gathers == \E found \in SUBSET CandidateIds : Gather(found)
Enters == \E i \in CandidateIds : Enter(i)
FetchesReturn ==
  \E i \in CandidateIds, result \in FetchResults, page \in PipelinePages :
     FetchReturns(i, result, page)
ClassifiersReturn ==
  \E i \in CandidateIds, outcome \in ClassifierOutcomes : ClassifierReturns(i, outcome)
InsertsReturn == \E i \in CandidateIds : InsertReturns(i)
CallbacksReturn == \E i \in CandidateIds : CallbackReturns(i)
CallbacksFail == \E i \in CandidateIds : CallbackFails(i)
ErrorCallbacksReturn == \E i \in CandidateIds : ErrorCallbackReturns(i)
SleepsReturn == \E i \in CandidateIds : SleepReturns(i)
NextPipeline ==
  \/ SetsCallback
  \/ Gathers
  \/ Enters
  \/ FetchesReturn
  \/ ClassifiersReturn
  \/ InsertsReturn
  \/ CallbacksReturn
  \/ CallbacksFail
  \/ ErrorCallbacksReturn
  \/ SleepsReturn
SpecPipeline == Init /\ [][NextPipeline]_vars

\* ------------------------------------------------------------ store claims

WithContent(docs, content) == {d \in docs : d.content = content}

\* a step that is an insert_document call made right after another insert_document
\* call with the same content
SecondInsertOfSameContent ==
  /\ last_call.op = "insert_document"
  /\ last_call'.op = "insert_document"
  /\ last_call'.content = last_call.content

\* C1 as stated: two insert_document calls with the same content, in any store state,
\* leave exactly one document with that content; the first call on a store lacking the
\* content returns True and the second returns False.
C1_AsStated ==
  [][SecondInsertOfSameContent =>
       /\ Cardinality(WithContent(documents', last_call'.content)) = 1
       /\ (~last_call.had_content => last_call.ret = "True" /\ last_call'.ret = "False")]_vars

\* C1 amended: two insert_document calls with the same content leave at most one document
\* with that content, the second call never returns True when the first did, and when the
\* store lacked both the content and the first call's url, the first call returns True, the
\* second returns False and exactly one document holds the content.
C1_IdempotentIngestion ==
  [][SecondInsertOfSameContent =>
       /\ Cardinality(WithContent(documents', last_call'.content)) <= 1
       /\ (last_call.ret = "True" => last_call'.ret = "False")
       /\ (last_call.had_content => last_call.ret = "False" /\ last_call'.ret = "False")
       /\ (~last_call.had_content /\ ~last_call.had_url =>
             /\ last_call.ret = "True"
             /\ last_call'.ret = "False"
             /\ Cardinality(WithContent(documents', last_call'.content)) = 1)]_vars

\* C1 witness: insert_document was refused for content that an earlier insert_document
\* stored under another url
C1_Witness ==
  /\ last_call.op = "insert_document"
  /\ last_call.ret = "False"
  /\ last_call.had_content /\ ~last_call.had_url
  /\ \E d \in documents : /\ d.content = last_call.content
                           /\ d.url # last_call.url
                           /\ d.classification_data = NULL
  /\ Cardinality(WithContent(documents, last_call.content)) = 1

\* C2: no two stored documents share a content_hash, and no two share a url
C2_Uniqueness ==
  \A d1 \in documents, d2 \in documents :
     d1 # d2 => d1.content_hash # d2.content_hash /\ d1.url # d2.url

\* C2 witness: two documents are stored, one of them reclassified, and a bulk insert has
\* just added a document
C2_Witness ==
  /\ Cardinality(documents) >= 2
  /\ \E d \in documents : d.indexed_at # NULL
  /\ last_call.op = "bulk_insert_documents"
  /\ last_call.count >= 1

\* C3: an insert_document call whose url or content hash is already stored returns False
\* (it does not raise) and leaves the stored documents as they were
C3_NoRaiseOnCollision ==
  [][(last_call'.op = "insert_document" /\ (last_call'.had_hash \/ last_call'.had_url)) =>
       (last_call'.ret = "False" /\ documents' = documents)]_vars

\* C3 witness: insert_document was refused for a stored url carrying new content
C3_Witness ==
  /\ last_call.op = "insert_document"
  /\ last_call.had_url /\ ~last_call.had_hash
  /\ last_call.ret = "False"

\* ------------------------------------------------------------ fetch claims

\* the step resumes the suspended strategy of coroutine f
Responded(f) ==
  /\ fetch[f].pc = "await"
  /\ (fetch'[f].pc # "await" \/ fetch'[f].mi # fetch[f].mi)

\* in the step, coroutine f selects an endpoint for a strategy invocation
Selects(f) ==
  /\ fetch'[f].pc = "await"
  /\ fetch'[f].endpoint # NULL
  /\ (fetch[f].pc # "await" \/ fetch[f].mi # fetch'[f].mi)

\* the blacklist as the strategies invoked in a step of f find it: the endpoint of the
\* strategy that has just raised is already on it
BlacklistSeen(f) ==
  IF Responded(f) /\ fetch'[f].last.outcome = "raise"
  THEN Blacklist(failed_proxies, fetch[f].endpoint)
  ELSE failed_proxies

\* in the step, coroutine f invokes strategy m while every endpoint of m's pool is
\* blacklisted
InvokedExhausted(f, m) ==
  /\ Responded(f)
  /\ m \in fetch'[f].called \ fetch[f].called
  /\ Pool(m) # {}
  /\ Pool(m) \subseteq BlacklistSeen(f)

C6_CountersOnEveryAttempt ==
  [][\A f \in Fetchers :
       Responded(f) =>
         LET m == Methods[fetch[f].mi]
         IN  proxy_stats'[m].success + proxy_stats'[m].failed
               = proxy_stats[m].success + proxy_stats[m].failed + 1]_vars

\* C7: no strategy invocation, of any coroutine, selects an endpoint that has failed in
\* an invocation since the last reset_failed_proxies.
C7_BlacklistedNeverSelected ==
  [][\A f \in Fetchers : Selects(f) => fetch'[f].endpoint \notin failed_since_reset']_vars

\* C7 witness: a resolver failed in another call, which is still in flight, before the
\* observed call began its pass (no counter has moved since), and the observed call has
\* selected the resolver that is not blacklisted
C7_Witness ==
  LET t == fetch[Observed]
  IN  /\ t.pc = "await"
      /\ Methods[t.mi] = "iranian_dns"
      /\ t.clean
      /\ t.snap["iranian_dns"] >= 1
      /\ failed_since_reset \cap iranian_dns # {}
      /\ t.endpoint \in iranian_dns \ failed_since_reset
      /\ \E f \in Fetchers \ {Observed} : fetch[f].pc \in {"await", "sleep"}

\* C8: a step either leaves every blacklist entry in place, or it empties the blacklist
\* and changes no counter and no coroutine (it is reset_failed_proxies): fetches only
\* add entries, and the reset removes all of them and nothing else.
C8_RemovedOnlyByReset ==
  [][\/ failed_proxies \subseteq failed_proxies'
     \/ /\ failed_proxies' = {}
        /\ proxy_stats' = proxy_stats
        /\ fetch' = fetch]_vars

\* C8 witness: the blacklist is empty after a resolver failed, with the failure still
\* counted and a call in flight
C8_Witness ==
  /\ failed_proxies = {}
  /\ proxy_stats["iranian_dns"].failed >= 1
  /\ proxy_stats["cors_proxy"].failed >= 1
  /\ \E f \in Fetchers \ {Observed} : fetch[f].pc = "await"
  /\ fetch[Observed].pc = "await"

\* C9 as stated: when a strategy is invoked with every endpoint of its pool blacklisted,
\* the blacklist is reset, so that the pool is no longer wholly blacklisted afterwards.
C9_AsStated ==
  [][\A m \in MethodNames :
       InvokedExhausted(Observed, m) => ~(Pool(m) \subseteq failed_proxies')]_vars

\* C9 amended: when a strategy is invoked with every endpoint of its pool blacklisted,
\* it selects no endpoint and fails, the failure is counted for that strategy, and the
\* blacklist is left as the invocation found it (only reset_failed_proxies clears it).
C9_ExhaustedPoolStaysBlacklisted ==
  [][\A m \in MethodNames :
       InvokedExhausted(Observed, m) =>
         /\ failed_proxies' = BlacklistSeen(Observed)
         /\ Pool(m) \subseteq failed_proxies'
         /\ ~(fetch'[Observed].pc = "await" /\ Methods[fetch'[Observed].mi] = m)
         /\ proxy_stats'[m].failed = proxy_stats[m].failed + 1]_vars

\* C9 witness: in a later pass iranian_dns came back with a short body, cors_proxy was
\* then invoked with its pool wholly blacklisted and counted as failed without a
\* request, and the call is now suspended in archive
C9_Witness ==
  LET t == fetch[Observed]
  IN  /\ t.pc = "await"
      /\ t.attempt >= 1
      /\ Methods[t.mi] = "archive"
      /\ t.last.outcome = "content"
      /\ t.called = MethodNames
      /\ cors_proxies \subseteq failed_proxies
      /\ t.clean
      /\ proxy_stats["cors_proxy"].failed = t.snap["cors_proxy"] + 1

\* C10: a call never hands a strategy's exception to its caller; it returns failure only
\* when max_retries passes are done, each of which invoked all four strategies, and
\* passes are counted one by one, each ending in the sleep; an accepted response makes
\* the call return success with the method that gave it; and every call that has begun
\* returns.
C10_FailureOnlyOnExhaustion ==
  /\ [](LET t == fetch[Observed]
        IN  /\ t.result.success # "raised"
            /\ t.pc = "sleep" => t.called = MethodNames /\ t.attempt < t.max_retries
            /\ (t.pc = "returned" /\ t.result.success = "False") =>
                  /\ t.attempt = t.max_retries
                  /\ t.max_retries > 0 => t.called = MethodNames
            /\ (t.pc = "returned" /\ t.result.success = "True") =>
                  /\ t.attempt < t.max_retries
                  /\ t.result.method \in t.called)
  /\ [][LET t == fetch[Observed]
            u == fetch'[Observed]
        IN  /\ u.attempt # t.attempt =>
                 \/ t.pc \in {"idle", "returned"} /\ u.attempt = 0
                 \/ t.pc = "sleep" /\ u.attempt = t.attempt + 1
            /\ (/\ Responded(Observed)
                /\ u.last.outcome = "content"
                /\ u.last.content_length > MinContentLength)
               => /\ u.pc = "returned"
                  /\ u.result = [success |-> "True", method |-> Methods[t.mi],
                                 content_length |-> u.last.content_length]]_vars
  /\ (fetch[Observed].pc \in {"await", "sleep"}) ~> (fetch[Observed].pc = "returned")

\* C10 witness: a call with the largest max_retries has returned failure after its last
\* pass invoked all four strategies
C10_Witness ==
  LET t == fetch[Observed]
  IN  /\ t.pc = "returned"
      /\ t.result.success = "False"
      /\ t.max_retries = MaxPasses
      /\ t.attempt = MaxPasses
      /\ t.called = MethodNames
      /\ \A m \in MethodNames : proxy_stats[m].success = 0

\* ------------------------------------------------------------ crawl claims

\* C11: during a scrape_site call, whatever the number of candidate urls and however
\* the tasks interleave, at most 2 scrape_document pipelines hold the semaphore, and so
\* at most 2 document fetches are in flight
C11_ConcurrencyBound ==
  \A r \in Runs :
     /\ Cardinality(InFlight(runs[r])) <= 2
     /\ Cardinality({i \in CandidateIds : runs[r].tasks[i] = "fetch"}) <= 2

\* C11 witness: two fetches in flight while a third candidate waits for the semaphore
C11_Witness ==
  \E r \in Runs :
     /\ runs[r].pc = "gather"
     /\ Cardinality({i \in CandidateIds : runs[r].tasks[i] = "fetch"}) = 2
     /\ Waiting(runs[r]) # {}

\* C12: under any sequence and interleaving of start and stop requests, at most one
\* crawl run has document pipelines in flight at any time
C12_NoOverlappingRuns ==
  Cardinality({r \in Runs : runs[r].pc = "gather" /\ InFlight(runs[r]) # {}}) <= 1

\* C13: once stop_scraping has cleared the flag during a run and the run's pipelines in
\* flight have finished, that run starts no further document pipeline and moves on to
\* no further site
C13_CooperativeStop ==
  [][\A r \in Runs :
       (/\ ~is_scraping
        /\ runs[r].pc \in {"discover", "gather"}
        /\ InFlight(runs[r]) = {})
       => /\ InFlight(runs'[r]) = {}
          /\ ~(runs[r].pc = "gather" /\ runs'[r].pc = "discover")]_vars

\* C14: a start_scraping that finds is_scraping true returns without raising, leaves
\* documents_processed, total_documents, error_count, current_url and the registered
\* callback as they were and hands no event to the callback; the start endpoint of the
\* API then answers that scraping is already in progress and schedules nothing
C14_StartWhileRunningIsNoOp ==
  /\ [][(last_step'.op = "start_scraping" /\ is_scraping)
        => /\ last_step'.ret = "returned"
           /\ last_step'.events = {}
           /\ UNCHANGED <<is_scraping, current_url, documents_processed, total_documents,
                          error_count, progress_callback>>
           /\ UNCHANGED storeVars
           /\ \A r \in Runs : runs'[r] # runs[r] => runs'[r].pc = "done"]_vars
  /\ [][(last_step'.op = "api_start" /\ is_scraping)
        => /\ last_step'.message = "Scraping already in progress"
           /\ UNCHANGED <<runs, is_scraping, current_url, documents_processed,
                          total_documents, error_count, progress_callback>>]_vars

\* C14 witness: a start_scraping has returned at the guard while a run with a pipeline in
\* flight had counted a document and set current_url
C14_Witness ==
  /\ last_step.op = "start_scraping"
  /\ last_step.ret = "returned"
  /\ is_scraping
  /\ documents_processed > 0
  /\ total_documents > 0
  /\ current_url # ""
  /\ progress_callback # NULL
  /\ \E r \in Runs : runs[r].pc = "gather"

\* C15: a start_scraping call that finds the flag false and begins a run sets
\* documents_processed, total_documents and error_count to 0 and is_scraping to true in
\* the step that begins the run, when no fetch of that run has been issued yet, whatever
\* the counters were before
C15_ResetAtStart ==
  [][(last_step'.op = "start_scraping" /\ ~is_scraping)
     => /\ last_step'.ret = "started"
        /\ documents_processed' = 0
        /\ total_documents' = 0
        /\ error_count' = 0
        /\ \A r \in Runs :
              runs'[r] # runs[r]
              => /\ runs'[r].pc \in {"notify_start", "discover", "done"}
                 /\ runs'[r].tasks = NoTasks
                 /\ is_scraping' = (runs'[r].pc # "done")]_vars

\* C15 witness: a run has just begun with the counters at 0 although an earlier run had
\* stored a document, and so had counted it
C15_Witness ==
  /\ last_step.op = "start_scraping"
  /\ last_step.ret = "started"
  /\ documents # {}
  /\ documents_processed = 0
  /\ total_documents = 0
  /\ error_count = 0
  /\ is_scraping
  /\ \E r \in Runs : runs[r].pc = "done"

C18_FetchFailureReported ==
  [][(/\ last_step'.op = "scrape_document"
      /\ last_step'.fetched = "False"
      /\ progress_callback # NULL)
     => Event("error", last_step'.url) \in last_step'.events]_vars

C20_DuplicateIsNotAnError ==
  /\ [][(last_step'.op = "scrape_document" /\ last_step'.called /\ last_step'.ret = "False")
        => /\ last_call'.op = "insert_document"
           /\ last_call'.ret = "False"
           /\ UNCHANGED <<documents, error_count, documents_processed>>
           /\ \A e \in last_step'.events : e.status # "error"
           /\ \A r \in Runs :
                 /\ runs'[r].pc = runs[r].pc
                 /\ Waiting(runs'[r]) = Waiting(runs[r])]_vars
  /\ [][\A r \in Runs :
          (runs[r].pc = "gather" /\ runs'[r].pc # "gather")
          => \A i \in CandidateIds : runs[r].tasks[i] \in {"none", "done"}]_vars
  /\ (/\ last_step.op = "scrape_document" /\ last_step.called /\ last_step.ret = "False"
      /\ Waiting(runs[FirstRun]) # {})
     ~> (\A i \in CandidateIds : runs[FirstRun].tasks[i] \in {"none", "done"})

\* C20 witness: the store has turned a document away while another candidate of the site
\* still waits for the semaphore
C20_Witness ==
  /\ last_step.op = "scrape_document"
  /\ last_step.called
  /\ last_step.ret = "False"
  /\ last_call.had_hash
  /\ documents_processed = 1
  /\ error_count = 0
  /\ \E r \in Runs : runs[r].pc = "gather" /\ Waiting(runs[r]) # {}

\* C21: every candidate url discovered for a site has its scrape_document invoked and
\* finished, whatever the fetch, the extraction, the classifier or the store did for
\* another url: a pipeline's outcome changes no other task, a task finishes only after
\* its own fetch, every gather reaches the point where all its tasks have returned, and
\* scrape_site then returns the number of pipelines that returned True
C21_OneBadDocumentNeverAborts ==
  /\ [][\A r \in Runs : \A i \in CandidateIds :
          (runs[r].pc = "gather" /\ runs'[r].pc = "gather"
           /\ runs'[r].tasks[i] # runs[r].tasks[i])
          => /\ <<runs[r].tasks[i], runs'[r].tasks[i]>> \in
                  {<<"waiting", "fetch">>, <<"fetch", "delay">>, <<"fetch", "done">>,
                   <<"delay", "done">>}
             /\ \A j \in CandidateIds \ {i} : runs'[r].tasks[j] = runs[r].tasks[j]]_vars
  /\ [][\A r \in Runs :
          (runs[r].pc = "gather" /\ runs'[r].pc # "gather")
          => /\ last_step'.op = "scrape_site"
             /\ \A i \in CandidateIds :
                   /\ runs[r].tasks[i] \in {"none", "done"}
                   /\ runs[r].tasks[i] = "done" <=> runs[r].results[i] \in {"True", "False"}
             /\ last_step'.count =
                  Cardinality({i \in CandidateIds : runs[r].results[i] = "True"})]_vars
  /\ (runs[FirstRun].pc = "gather")
     ~> (/\ runs[FirstRun].pc = "gather"
         /\ \A i \in CandidateIds : runs[FirstRun].tasks[i] \in {"none", "done"})

\* C21 witness: scrape_site has returned 1 for a site with at least three candidates,
\* one of which could not be fetched
C21_Witness ==
  /\ last_step.op = "scrape_site"
  /\ last_step.count = 1
  /\ total_documents >= 3
  /\ error_count >= 1
  /\ documents_processed = 1

\* ------------------------------------------------------------ search claims

\* C22: a search_documents call with the arguments of an earlier call made less than
\* the TTL of 3600 seconds before is answered from the entry that call wrote and returns
\* exactly the earlier result, whatever was inserted in between; when no entry is left
\* or the entry has expired, the query is executed afresh
C22_CacheHitWithinTTL ==
  [][search_documents(last_search'.args)
     => LET written == {e \in search_cache : e.query_hash = query_hash(last_search'.args)}
            live == {e \in written : clock < e.created_at + 3600}
        IN  /\ \A e \in live : last_search'.status = "hit" /\ last_search'.ret = e.results
            /\ live = {} => last_search'.status # "hit"]_vars

\* the three calls of the pagination law for arguments a and limit L, none of them
\* answered from the cache: pages 1 and 2 with limit L, page 1 with limit 2L
PageOf(a, page, limit) ==
  search_outcome(documents, {}, clock, [a EXCEPT !.page = page, !.limit = limit])
Ids(data) == {data[i].id : i \in 1..Len(data)}

\* C23: for the stored documents, any query, filters and sort key, pages 1 and 2 with
\* limit L are returned, are disjoint, and their concatenation is page 1 with limit 2L
C23_PaginationStable ==
  \A a \in SearchArgs : \A L \in Limits :
    LET p1 == PageOf(a, 1, L)
        p2 == PageOf(a, 2, L)
        both == PageOf(a, 1, 2 * L)
    IN  /\ p1.status = "miss" /\ p2.status = "miss" /\ both.status = "miss"
        /\ Ids(p1.ret.data) \cap Ids(p2.ret.data) = {}
        /\ p1.ret.data \o p2.ret.data = both.ret.data

\* the documents A, B (the content of A under another url) and C (other content,
\* category "constitutional") of the dedup scenario
DocA == CHOOSE doc \in Corpus : doc.url = UrlNames[1]
DocB == CHOOSE doc \in Corpus : doc.url = UrlNames[2]
DocC == CHOOSE doc \in Corpus : doc.url = UrlNames[3]
InsertOf(doc) == insert_document(doc.url, doc.title, doc.content, "majlis", doc.category, NULL)

\* search_documents(category=X) without query text and without a cache entry, with a
\* page that holds every stored document
SearchCategory(docs, X) ==
  search_outcome(docs, {}, clock, [query |-> "", source |-> NULL, category |-> X,
                                   sort_by |-> "relevance", page |-> 1,
                                   limit |-> 2 * MaxLimit]).ret

\* C24: an uncached search with category X and no query text returns exactly the stored
\* documents of category X; every insert_document call raises the document count by one
\* when it returns True and leaves it alone otherwise, so that the count is the number
\* of inserts that returned True; and inserting C after A was stored and B was rejected
\* leaves a count of 2 and C alone under its category
C24_DedupVisible ==
  /\ [](\A X \in Categories \ {NULL} :
          /\ Ids(SearchCategory(documents, X).data) = {d.id : d \in {e \in documents : e.category = X}}
          /\ SearchCategory(documents, X).total = Cardinality({e \in documents : e.category = X}))
  /\ [][\A doc \in Corpus :
          InsertOf(doc) =>
            total_documents_stat(documents') =
              total_documents_stat(documents) + (IF last_call'.ret = "True" THEN 1 ELSE 0)]_vars
  /\ [][(\E a \in SearchRequests : search_documents(a)) \/ clear_cache \/ Tick
          => total_documents_stat(documents') = total_documents_stat(documents)]_vars
  /\ [][(/\ {d.url : d \in documents} = {DocA.url}
         /\ last_call.op = "insert_document" /\ last_call.url = DocB.url
         /\ last_call.ret = "False"
         /\ InsertOf(DocC))
          => /\ total_documents_stat(documents') = 2
             /\ LET data == SearchCategory(documents', DocC.category).data
                IN  {data[i].url : i \in 1..Len(data)} = {DocC.url}]_vars

\* A and C are stored, B has just been rejected for its content under a url not stored,
\* the count is 2 and the search under the category of C returns C alone
C24_Witness ==
  /\ {d.url : d \in documents} = {DocA.url, DocC.url}
  /\ last_call.op = "insert_document" /\ last_call.url = DocB.url
  /\ last_call.ret = "False" /\ last_call.had_hash /\ ~last_call.had_url
  /\ total_documents_stat(documents) = 2
  /\ Len(SearchCategory(documents, DocC.category).data) = 1
  /\ SearchCategory(documents, DocC.category).data[1].url = DocC.url

\* the columns of a row that update_classification has no business with
KeyColumns(d) == [id |-> d.id, url |-> d.url, title |-> d.title, content |-> d.content,
                  source |-> d.source, category |-> d.category,
                  content_hash |-> d.content_hash, scraped_at |-> d.scraped_at]

\* C25: update_classification(doc_id, classification) leaves url, title, content, source,
\* category and content_hash of every document as they were, changes nothing but
\* classification_data and indexed_at of the document with that id, changes nothing at
\* all when no document has the id, and an insert of the content of any stored document
\* under any url still returns False afterwards
C25_UpdateKeepsDedupKey ==
  [][\A doc_id \in 1..(NumUrls + 1), classification \in Classifications :
       update_classification(doc_id, classification) =>
         /\ {KeyColumns(d) : d \in documents'} = {KeyColumns(d) : d \in documents}
         /\ Cardinality(documents') = Cardinality(documents)
         /\ {d \in documents' : d.id # doc_id} = {d \in documents : d.id # doc_id}
         /\ (\A d \in documents : d.id # doc_id) => documents' = documents
         /\ \A d \in documents', url \in Urls \cup {UrlNames[NumUrls + 1]} :
              insert_document_outcome(documents', url, d.title, d.content, d.source,
                                      d.category, NULL).ret = "False"]_vars

\* the content of a classified document has just been offered again, under a url that
\* is not stored, and was turned away
C25_Witness ==
  /\ last_call.op = "insert_document" /\ last_call.ret = "False"
  /\ last_call.had_hash /\ ~last_call.had_url
  /\ \E d \in documents : /\ d.content = last_call.content
                          /\ d.indexed_at = "CURRENT_TIMESTAMP"
                          /\ d.classification_data = json_dumps("criminal")

\* C26: no step of insert_document, bulk_insert_documents, search_documents,
\* update_classification or clear_cache removes or rewrites a document: get_document
\* returns every stored document under its id with the url, title, content, source and
\* category it had before the step, and the number of documents does not go down
C26_NeverDeletedImmutable ==
  [][/\ \A d \in documents :
          /\ get_document(documents, d.id).found
          /\ get_document(documents', d.id).found
          /\ \A column \in {"id", "url", "title", "content", "source", "category"} :
                get_document(documents', d.id)[column] = get_document(documents, d.id)[column]
     /\ total_documents_stat(documents') >= total_documents_stat(documents)]_vars

\* two documents are stored, the first one has been classified since, and a search has
\* just returned a page of them
C26_Witness ==
  /\ Cardinality(documents) = 2
  /\ last_call.op = "update_classification"
  /\ get_document(documents, 1).found /\ get_document(documents, 2).found
  /\ get_document(documents, 1).indexed_at = "CURRENT_TIMESTAMP"
  /\ get_document(documents, 1).classification # "absent"
  /\ last_search.op = "search_documents" /\ last_search.ret.total = 2
  /\ search_cache # {}

\* ------------------------------------------------------------ discovery claims

\* the text of a url holds a document indicator, whatever the case of its letters
HasKeyword(url) == \E i \in 1..Len(url), word \in document_indicators : lower(url[i]) = word
Elements(s) == {s[i] : i \in 1..Len(s)}

\* C27: the list discover_document_urls returns has no url twice, holds only urls that
\* were the target of an anchor of the base page or of a page a pagination link points
\* to and that contain a document indicator, never a url without one (https://site/about),
\* and is empty when the base page could not be fetched
C27_DiscoveryFilter ==
  discovery.pc = "done" =>
    /\ \A i, j \in 1..Len(discovery.ret) : discovery.ret[i] = discovery.ret[j] => i = j
    /\ \A url \in Elements(discovery.ret) :
         url \in discovery.seen /\ HasKeyword(url)
    /\ <<"https://site", "/", "about">> \notin Elements(discovery.ret)
    /\ discovery.base_fetched = "False" => discovery.ret = <<>>

\* a discovery has returned two urls after a pagination page was read; the anchors held
\* /about, and some url more than once
C27_Witness ==
  /\ discovery.pc = "done" /\ discovery.pages = 1
  /\ Len(discovery.ret) = 2
  /\ <<"https://site", "/", "about">> \in discovery.seen
  /\ discovery.links > Cardinality(discovery.seen)
  /\ discovery.urls # {} /\ Elements(discovery.ret) = discovery.urls

\* ------------------------------------------------------------ reporting claims

\* task i of run r has left its fetch in this step with a page that gave a document
\* which insert_document stored
ScrapedAndStored(r, i) ==
  /\ runs[r].tasks[i] = "fetch" /\ runs'[r].tasks[i] # "fetch"
  /\ last_step'.op = "scrape_document" /\ last_step'.url = CandidateUrl(i)
  /\ last_step'.fetched = "True" /\ last_step'.valid /\ last_step'.called
  /\ last_call'.op = "insert_document" /\ last_call'.ret = "True"

C29_DirectSuccessReturned ==
  [][LET t == fetch[Observed]
         u == fetch'[Observed]
     IN  (/\ Responded(Observed)
          /\ Methods[t.mi] = "direct"
          /\ u.last.outcome = "content"
          /\ u.last.content_length > 0)
         => /\ u.pc = "returned"
            /\ u.result = [success |-> "True", method |-> "direct",
                           content_length |-> u.last.content_length]]_vars

\* ------------------------------------------------------------ lifecycle claims

\* C30: whenever is_scraping is true it is false again later, and the first run, once
\* begun, comes to its end, whether it finishes normally, is stopped on the way or a
\* callback raises into the except clause; the step in which a run ends leaves
\* is_scraping false; and a start_scraping that finds is_scraping false is accepted: it
\* begins a run
C30_EveryRunReturnsToIdle ==
  /\ is_scraping ~> ~is_scraping
  /\ (FirstRun \in Executing) ~> (runs[FirstRun].pc = "done")
  /\ [][\A r \in Runs :
          (r \in Executing /\ runs'[r].pc = "done") => ~is_scraping']_vars
  /\ [][\A r \in Runs :
          (runs[r].pc = "scheduled" /\ runs'[r].pc # "scheduled" /\ ~is_scraping)
            => /\ last_step'.op = "start_scraping" /\ last_step'.ret = "started"
               /\ r \in Executing' \/ (runs'[r].pc = "done" /\ ~is_scraping')]_vars

\* a run has ended through the except clause, another run has ended too, and the flag
\* is down
C30_Witness ==
  /\ \A r \in {FirstRun, FirstRun + 1} : runs[r].pc = "done"
  /\ ~is_scraping
  /\ last_step.op = "start_scraping" /\ last_step.ret = "failed"
  /\ error_count >= 1

\* ------------------------------------------------------------ pipeline claims

\* the position of a step in the order of scrape_document
StepIndex(step) == CHOOSE k \in 1..Len(Steps) : Steps[k] = step
\* positions of the trace at which a step begins
Begins(trace) == {k \in 1..Len(trace) : trace[k][2] = "begin"}

\* C31: in every scrape_document call the steps begin in the order fetch, extract,
\* classify, insert, event, delay, the fetch first; a step begins only when the step
\* begun before it has ended, so that no two steps of a document overlap; and
\* insert_document is called only after the classifier call for the document has ended
\* (returned or raised)
C31_StepOrder ==
  \A i \in CandidateIds :
    LET trace == pipeline[i].trace
    IN  /\ \A k \in 1..Len(trace) : trace[k][1] \in {Steps[j] : j \in 1..Len(Steps)}
        /\ trace # <<>> => trace[1] = Begin("fetch")
        /\ \A k, l \in Begins(trace) :
              k < l => StepIndex(trace[k][1]) < StepIndex(trace[l][1])
        /\ \A k \in Begins(trace) : k < Len(trace) => trace[k + 1] = End(trace[k][1])
        /\ \A k \in 1..Len(trace) :
              trace[k][2] = "end" => k > 1 /\ trace[k - 1] = Begin(trace[k][1])
        /\ \A k \in 1..Len(trace) :
              (trace[k] = Begin("insert") /\ ai_classifier # NULL)
              => k > 1 /\ trace[k - 1] = End("classify")

\* a pipeline is over after all six steps though its classifier raised, another is over
\* without an event because the store turned its document away, and a third is
\* suspended in its fetch
C31_Witness ==
  \E i, j, l \in CandidateIds :
     /\ i # j
     /\ pipeline[i].pc = "done" /\ pipeline[j].pc = "done"
     /\ pipeline[i].trace = <<Begin("fetch"), End("fetch"), Begin("extract"), End("extract"),
                              Begin("classify"), End("classify"), Begin("insert"),
                              End("insert"), Begin("event"), End("event"),
                              Begin("delay"), End("delay")>>
     /\ Len(pipeline[j].trace) = 10 /\ pipeline[j].ret = "False"
     /\ pipeline[l].pc = "fetch"
     /\ \E d \in documents : d.classification_data = NULL

\* C32: a pipeline that holds a slot of the semaphore gives it back, so that the fetch of
\* the next document can begin on it, only after its politeness delay has elapsed,
\* whatever its document ended with (stored, duplicate, no document, fetch failure,
\* exception)
C32_PolitenessDelay ==
  [][\A i \in CandidateIds :
       (i \in Holding /\ pipeline'[i].pc = "done")
       => /\ pipeline[i].pc = "delay"
          /\ pipeline'[i].trace[Len(pipeline'[i].trace)] = End("delay")]_vars

\* C33: fetch_with_rotation sleeps only between two passes over the chain: whenever it
\* is suspended in the backoff sleep another pass is still to come (so a call of n passes
\* sleeps n-1 times), and the step that ends a sleep never returns the failure
C33_BackoffOnlyBetweenAttempts ==
  /\ [](fetch[Observed].pc = "sleep"
        => fetch[Observed].attempt + 1 < fetch[Observed].max_retries)
  /\ [][fetch[Observed].pc = "sleep" => fetch'[Observed].pc # "returned"]_vars

\* C34: with several fetch_with_rotation calls in flight on one proxy manager, under
\* every interleaving of their steps between awaits, the failed counter of each strategy
\* is the number of invocations of it that raised, over all workers, at every point and
\* so when all calls have returned; every endpoint whose request failed is on the
\* blacklist; and a step in which a strategy raises on its response adds one to that
\* strategy's counter at least
C34_NoLostUpdate ==
  /\ [](\A m \in MethodNames : proxy_stats[m].failed = raised_events[m])
  /\ [](failed_since_reset \subseteq failed_proxies)
  /\ [][\A f \in Fetchers :
          (Responded(f) /\ fetch[f].endpoint # NULL /\ fetch[f].endpoint \in failed_since_reset')
          => fetch[f].endpoint \in failed_proxies']_vars

\* both workers have returned failure after their direct and resolver requests failed:
\* two failures each are counted for direct and iranian_dns, both resolvers and the relay
\* and the mirror are blacklisted
C34_Witness ==
  /\ \A f \in Fetchers : fetch[f].pc = "returned" /\ fetch[f].result.success = "False"
  /\ proxy_stats["direct"].failed = 2 /\ raised_events["direct"] = 2
  /\ proxy_stats["iranian_dns"].failed = 2
  /\ iranian_dns \subseteq failed_proxies
  /\ Cardinality(failed_proxies) >= 3

\* ------------------------------------------------------------ index claims

\* C35: after any sequence of insert_document, bulk_insert_documents and
\* update_classification calls the full-text index holds one row for each document and
\* no other: the rowids of the index are the ids of the documents, and the row of a
\* document carries its current title, content, category and source
C35_IndexInLockStep ==
  /\ {e.rowid : e \in documents_fts} = {d.id : d \in documents}
  /\ Cardinality(documents_fts) = Cardinality(documents)
  /\ \A e \in documents_fts : \E d \in documents :
        /\ d.id = e.rowid
        /\ e.title = d.title /\ e.content = d.content
        /\ e.category = d.category /\ e.source = d.source

\* the index holds the rows of two documents, one inserted by insert_document with a
\* category and one by a bulk insert, and the first has been classified since
C35_Witness ==
  /\ Cardinality(documents_fts) = 2
  /\ \E d \in documents : d.indexed_at = "CURRENT_TIMESTAMP" /\ d.category = "constitutional"
                          /\ FtsRow(d) \in documents_fts
  /\ \E d \in documents : d.classification_data = "null" /\ FtsRow(d) \in documents_fts
  /\ last_call.op = "update_classification"

\* the stored documents a search with arguments a is to count: those that satisfy the
\* source and category filters and whose indexed text holds the query word
MatchesQuery(d, query) == query = "" \/ (query = "law" /\ d.title \in {"Law 42", "law 42"})
Matching(docs, a) ==
  {d \in docs : /\ MatchesQuery(d, a.query)
                /\ a.source # NULL => d.source = a.source
                /\ a.category # NULL => d.category = a.category}
Min(x, y) == IF x < y THEN x ELSE y
Max(x, y) == IF x > y THEN x ELSE y

\* C36: every search_documents call that is not answered from the cache, with page >= 1
\* and limit >= 1, returns a page; its total is the number of stored documents matching
\* the query and the filters, whatever page and limit are; data holds exactly
\* min(limit, max(0, total - (page-1)*limit)) documents; has_more is true exactly when
\* page*limit < total
C36_SearchPageShape ==
  \A a \in SearchArgs :
    LET o == search_outcome(documents, {}, clock, a)
        total == Cardinality(Matching(documents, a))
    IN  /\ o.status = "miss"
        /\ o.ret.total = total
        /\ Len(o.ret.data) = Min(a.limit, Max(0, total - (a.page - 1) * a.limit))
        /\ Len(o.ret.data) <= a.limit
        /\ o.ret.has_more <=> (a.page * a.limit < total)

\* ------------------------------------------------------------ status claims

\* get_status(): documentsProcessed, totalDocuments and successRate, in percent
get_status ==
  [documentsProcessed |-> documents_processed, totalDocuments |-> total_documents,
   successRate100 |-> documents_processed * 100,
   successRateDivisor |-> Max(total_documents, 1)]

\* C37: at every point of a run, a run over several sites included, get_status reports
\* documentsProcessed <= totalDocuments, and so a successRate of 100 at most
C37_ProgressWithinTotal ==
  /\ get_status.documentsProcessed <= get_status.totalDocuments
  /\ get_status.successRate100 <= 100 * get_status.successRateDivisor

\* ------------------------------------------------------------ cache claims

\* C38: two search_documents calls, one after the other, whose argument tuples differ
\* (be it only in where an underscore falls between the query and a filter, or in None
\* against the string 'None') never use the same cache key, and a call never finds or
\* replaces the cache entry that a call with other arguments wrote
C38_CacheKeysDistinct ==
  [][\A a \in KeyRequests :
       (/\ last_search.op = "search_documents"
        /\ last_search.args # a
        /\ search_documents(a))
       => /\ query_hash(a) # query_hash(last_search.args)
          /\ \A e \in search_cache :
                e.query_hash = query_hash(last_search.args) => e \in search_cache']_vars

\* C39: clear_cache removes only expired entries: every cache entry whose expires_at is
\* still ahead of the clock is present and unchanged afterwards, every entry whose
\* expires_at has passed is gone, no entry is added, and table documents is unchanged
C39_ClearOnlyExpired ==
  [][clear_cache =>
       /\ \A e \in search_cache : e.expires_at.v > clock => e \in search_cache'
       /\ \A e \in search_cache : e.expires_at.v < clock => e \notin search_cache'
       /\ search_cache' \subseteq search_cache
       /\ documents' = documents]_vars

\* ------------------------------------------------------------ health check claims

\* C40: health_check is an observation: it probes the direct, DNS and relay strategies
\* once each, in that order and whatever the earlier probes did, reports 'unhealthy' for
\* a strategy that raised and 'healthy' otherwise, and none of its steps changes the
\* per-strategy counters or the blacklist, so the endpoints a later fetch may select
\* are the same before and after
C40_HealthCheckObserves ==
  [][(HealthCheckBegins \/ HealthResumes) =>
       /\ health'.pc = "done" =>
            /\ health'.probed = HealthMethods
            /\ \A m \in DOMAIN health'.status : health'.status[m] \in {"healthy", "unhealthy"}
       /\ proxy_stats' = proxy_stats
       /\ failed_proxies' = failed_proxies
       /\ \A m \in MethodNames : Candidates(m, failed_proxies') = Candidates(m, failed_proxies)]_vars

====
